---- MODULE Spec2Model ----
(***************************************************************************)
(* Model of the asynchronous task subsystem (TaskStore, TaskExecutor, the  *)
(* periodic cleanup loop) and of the OAuth connection service (GitService) *)
(* of pocket-claude.                                                       *)
(*                                                                         *)
(* Time is counted in minutes.  An Optional[...] value of the code is a    *)
(* sequence: None is <<>> and a present value v is <<v>>.                   *)
(***************************************************************************)
EXTENDS Integers, Sequences, FiniteSets, TLC

\* ------------------------------------------------------------------ bounds
MaxTasks == 2
MaxWorkers == 1
MaxTime == 61
MaxStates == 2
MaxCallbacks == 2
MaxConns == 2
MaxCalls == 2
MaxLen == 3

\* ------------------------------------------------------- program constants
TTL_MINUTES == 60
CLEANUP_INTERVAL_MINUTES == 5
OAUTH_STATE_EXPIRY_MINUTES == 15
TOKEN_REFRESH_BUFFER_MINUTES == 10

None == <<>>
Some(v) == <<v>>

PENDING == "pending"
RUNNING == "running"
COMPLETED == "completed"
FAILED == "failed"
TaskStatus == {PENDING, RUNNING, COMPLETED, FAILED}
Terminal == {COMPLETED, FAILED}

VARIABLES
  now,          \* the wall clock, datetime.now(timezone.utc)
  tasks,        \* TaskStore._tasks: task_id -> TaskInfo
  nextTaskId,   \* the next fresh task id (uuid4 never repeats)
  exec,         \* the execute_task coroutines: slot -> position and locals
  poolQueue,    \* ThreadPoolExecutor work queue (slots waiting for a worker)
  reaperSleep,  \* minutes left of the cleanup loop's sleep(300)
  lifecycle,    \* the cleanup task's state and the position of shutdown_event
  upd,          \* the callers' overlapping TaskStore.update_task calls
  ret,          \* the last store / controller call: what was passed, what came back
  oauth_states, \* GitService._oauth_states: state -> the flow it belongs to
  nextState,    \* the next fresh state (token_urlsafe(32) never repeats)
  conns,        \* the committed rows of table git_connections: id -> row
  connState,    \* history: the OAuth state each connection was created from
  cb,           \* the handle_oauth_callback coroutines
  tk,           \* the get_decrypted_token coroutines
  lockHolder,   \* GitService._refresh_locks: connection id -> holder (0: free)
  lockWaiters,  \* connection id -> the coroutines waiting for its lock, oldest first
  refreshCalls, \* history: refresh_token grants sent to the provider, per connection
  concCalls,    \* history: those sent by calls that all overlap, per connection
  firstDone,    \* history: some get_decrypted_token call of the connection has ended
  rejected      \* history: the provider has refused or failed a refresh

taskVars == <<tasks, nextTaskId, exec, poolQueue, reaperSleep, lifecycle, upd>>
oauthVars == <<oauth_states, nextState, connState, cb>>
tokenVars == <<tk, lockHolder, lockWaiters, refreshCalls, concCalls, firstDone, rejected>>
gitVars == <<oauthVars, tokenVars, conns>>
vars == <<now, tasks, nextTaskId, exec, poolQueue, reaperSleep, lifecycle, upd, ret, oauth_states, nextState,
          conns, connState, cb, tk, lockHolder, lockWaiters, refreshCalls, concCalls,
          firstDone, rejected>>

TaskIds == 1..MaxTasks
ExecSlots == 1..MaxTasks

\* ----------------------------------------------------------------- inputs
\* ChatRequest bodies a caller may send.
Requests ==
  { [message |-> "Hello Claude", session_id |-> None, project_path |-> None, skip |-> FALSE],
    [message |-> "Hello Claude", session_id |-> Some("sess-0"), project_path |-> Some("/proj"), skip |-> TRUE],
    [message |-> "Hello Claude", session_id |-> None, project_path |-> Some("/missing"), skip |-> FALSE],
    [message |-> "", session_id |-> Some("sess-0"), project_path |-> Some("/proj"), skip |-> FALSE] }

\* What the claude subprocess may print and return: (stdout, returncode, stderr).
ProcessResults ==
  { [stdout |-> "Hi!", returncode |-> 0, stderr |-> ""],
    [stdout |-> "", returncode |-> 1, stderr |-> "warn"] }

\* Session ids execute_chat finds in the output of a new conversation.
ExtractedSessions == {"sess-1"}

PathExists(p) == p = "/proj"

NoOutcome ==
  [kind |-> "none", response |-> "", session_id |-> "", exit_code |-> 0,
   stderr |-> "", msg |-> ""]

Raises(m) == [NoOutcome EXCEPT !.kind = "raise", !.msg = m]

Returns(r, s) ==
  [kind |-> "return", response |-> r.stdout, session_id |-> s,
   exit_code |-> r.returncode, stderr |-> r.stderr, msg |-> ""]

\* ClaudeService.execute_chat: every outcome the call may have on these inputs.
execute_chat(message, session_id, project_path) ==
  IF message = ""
  THEN {Raises("Message cannot be empty")}
  ELSE IF project_path # None /\ ~PathExists(project_path[1])
  THEN {Raises("Project path does not exist: " \o project_path[1])}
  ELSE {Returns(r, IF session_id # None THEN session_id[1] ELSE s) :
           r \in ProcessResults, s \in ExtractedSessions}
       \cup {Raises("Claude command timed out after 300 seconds")}

\* ------------------------------------------------------------- TaskStore
\* TaskStore.create_task: the TaskInfo it stores.
create_task(message, session_id, project_path, t) ==
  [status |-> PENDING, message |-> message, session_id |-> session_id,
   project_path |-> project_path, result |-> None, error |-> None,
   exit_code |-> None, stderr |-> None,
   created_at |-> t, updated_at |-> t, expires_at |-> t + TTL_MINUTES]

\* A variant that drops the stderr argument.
update_task_without_stderr(task, status, result, error, exit_code, stderr, session_id, t) ==
  [task EXCEPT
     !.status = IF status # None THEN status[1] ELSE @,
     !.result = IF result # None THEN result ELSE @,
     !.error = IF error # None THEN error ELSE @,
     !.exit_code = IF exit_code # None THEN exit_code ELSE @,
     !.session_id = IF session_id # None THEN session_id ELSE @,
     !.updated_at = t,
     !.expires_at = IF status # None /\ status[1] \in Terminal
                    THEN t + TTL_MINUTES ELSE @]

\* A variant that counts a task's expiry from its creation only.
update_task_keeps_expiry(task, status, result, error, exit_code, stderr, session_id, t) ==
  [task EXCEPT
     !.status = IF status # None THEN status[1] ELSE @,
     !.result = IF result # None THEN result ELSE @,
     !.error = IF error # None THEN error ELSE @,
     !.exit_code = IF exit_code # None THEN exit_code ELSE @,
     !.stderr = IF stderr # None THEN stderr ELSE @,
     !.session_id = IF session_id # None THEN session_id ELSE @,
     !.updated_at = t]

\* A variant that refuses to change the status of a completed or failed task.
update_task_guarded(task, status, result, error, exit_code, stderr, session_id, t) ==
  [task EXCEPT
     !.status = IF status # None /\ task.status \notin Terminal THEN status[1] ELSE @,
     !.result = IF result # None THEN result ELSE @,
     !.error = IF error # None THEN error ELSE @,
     !.exit_code = IF exit_code # None THEN exit_code ELSE @,
     !.stderr = IF stderr # None THEN stderr ELSE @,
     !.session_id = IF session_id # None THEN session_id ELSE @,
     !.updated_at = t,
     !.expires_at = IF status # None /\ status[1] \in Terminal
                    THEN t + TTL_MINUTES ELSE @]

\* TaskStore.update_task on a stored task: merges the arguments that are not
\* None, refreshes updated_at, and resets expires_at on a terminal status.
update_task(task, status, result, error, exit_code, stderr, session_id, t) ==
  [task EXCEPT
     !.status = IF status # None THEN status[1] ELSE @,
     !.result = IF result # None THEN result ELSE @,
     !.error = IF error # None THEN error ELSE @,
     !.exit_code = IF exit_code # None THEN exit_code ELSE @,
     !.stderr = IF stderr # None THEN stderr ELSE @,
     !.session_id = IF session_id # None THEN session_id ELSE @,
     !.updated_at = t,
     !.expires_at = IF status # None /\ status[1] \in Terminal
                    THEN t + TTL_MINUTES ELSE @]

\* A variant that keeps a finished task for one more TTL.
expired_after_second_ttl(ts, t) ==
  {id \in DOMAIN ts : ts[id].status \in Terminal /\ ts[id].expires_at + TTL_MINUTES < t}

\* A variant that deletes expired completed tasks and keeps failed ones.
expired_completed_only(ts, t) ==
  {id \in DOMAIN ts : ts[id].status = COMPLETED /\ ts[id].expires_at < t}

\* A variant that deletes every task past its expires_at, whatever its status.
expired_any_status(ts, t) == {id \in DOMAIN ts : ts[id].expires_at < t}

\* TaskStore.cleanup_expired: the ids it deletes at time t.
expired_ids(ts, t) ==
  {id \in DOMAIN ts : ts[id].status \in Terminal /\ ts[id].expires_at < t}

\* TaskStore.get_task: the stored status, or NotFound.
get_task(ts, id) == IF id \in DOMAIN ts THEN ts[id].status ELSE "NotFound"

Without(ts, ids) == [id \in (DOMAIN ts) \ ids |-> ts[id]]

Put(ts, id, task) == [i \in (DOMAIN ts) \cup {id} |-> IF i = id THEN task ELSE ts[i]]

NoRet == [op |-> "none", id |-> 0, status |-> None, res |-> "none", n |-> 0]
Ret(op, id, res, n) == [op |-> op, id |-> id, status |-> None, res |-> res, n |-> n]

\* ---------------------------------------------------------- TaskExecutor
IdleExec ==
  [pc |-> "idle", task_id |-> 0, skip |-> FALSE, message |-> "",
   session_id |-> None, project_path |-> None, outcome |-> NoOutcome]

Busy == {e \in ExecSlots : exec[e].pc = "executing"}

\* shutdown_event is inside the synchronous executor.shutdown(wait=True):
\* the event loop runs nothing else until the call returns.
LoopFree == lifecycle.shutdown # "executor"

\* executor.shutdown has been called: submit raises RuntimeError from now on.
PoolShutDown == lifecycle.shutdown \in {"executor", "closing_db", "done"}

FreeSlot == CHOOSE e \in ExecSlots : exec[e].pc = "idle" /\ \A f \in ExecSlots : exec[f].pc = "idle" => e <= f

\* A variant that starts a second execute_task coroutine for the same task.
schedule_twice(e, id, skip) ==
  [f \in ExecSlots |->
     IF f = e \/ (exec[f].pc = "idle" /\ \A g \in ExecSlots \ {e} : exec[g].pc = "idle" => f <= g)
     THEN [IdleExec EXCEPT !.pc = "scheduled", !.task_id = id, !.skip = skip]
     ELSE exec[f]]

Schedule(e, id, skip) == [exec EXCEPT ![e] = [IdleExec EXCEPT !.pc = "scheduled", !.task_id = id, !.skip = skip]]

\* A variant that puts a task whose collaborator raised back to pending.
execute_task_requeue(task, o, t) ==
  IF o.kind = "return"
  THEN update_task(task, Some(COMPLETED), Some(o.response), None,
                   Some(o.exit_code), Some(o.stderr), Some(o.session_id), t)
  ELSE update_task(task, Some(PENDING), None, Some(o.msg), None, None, None, t)

\* A variant that marks a task whose collaborator raised as completed.
execute_task_failure_as_completed(task, o, t) ==
  IF o.kind = "return"
  THEN update_task(task, Some(COMPLETED), Some(o.response), None,
                   Some(o.exit_code), Some(o.stderr), Some(o.session_id), t)
  ELSE update_task(task, Some(COMPLETED), None, Some(o.msg), None, None, None, t)

\* A variant that reports the exception's message as the task's result.
execute_task_error_as_result(task, o, t) ==
  IF o.kind = "return"
  THEN update_task(task, Some(COMPLETED), Some(o.response), None,
                   Some(o.exit_code), Some(o.stderr), Some(o.session_id), t)
  ELSE update_task(task, Some(FAILED), Some(o.msg), None, None, None, None, t)

\* A variant without the update of the except block: a call that raised
\* leaves the task as it is.
execute_task_without_except(task, o, t) ==
  IF o.kind = "return"
  THEN update_task(task, Some(COMPLETED), Some(o.response), None,
                   Some(o.exit_code), Some(o.stderr), Some(o.session_id), t)
  ELSE task

\* The store after execute_task's final update_task: completed with the
\* collaborator's values, or failed with the exception's message.
execute_task_result(task, o, t) ==
  IF o.kind = "return"
  THEN update_task(task, Some(COMPLETED), Some(o.response), None,
                   Some(o.exit_code), Some(o.stderr), Some(o.session_id), t)
  ELSE update_task(task, Some(FAILED), None, Some(o.msg), None, None, None, t)

\* TaskController.create_chat_task: store a pending task and schedule its
\* execution as a background asyncio task.
CreateChatTaskOf(requests) ==
  /\ LoopFree
  /\ nextTaskId <= MaxTasks
  /\ \E e \in ExecSlots : exec[e].pc = "idle"
  /\ \E req \in requests :
       /\ tasks' = Put(tasks, nextTaskId,
                       create_task(req.message, req.session_id, req.project_path, now))
       /\ exec' = Schedule(FreeSlot, nextTaskId, req.skip)
  /\ nextTaskId' = nextTaskId + 1
  /\ ret' = Ret("create_chat_task", 0, PENDING, 0)
  /\ UNCHANGED <<now, poolQueue, reaperSleep>>
  /\ UNCHANGED <<gitVars, lifecycle, upd>>

CreateChatTask == CreateChatTaskOf(Requests)

\* execute_task up to its first suspension: get_task, update_task(RUNNING),
\* run_in_executor.  The store lock is never held across an await, so these
\* run without interleaving.  A NotFoundException of get_task is outside the
\* try block and leaves the coroutine.  After executor.shutdown the submit
\* inside run_in_executor raises RuntimeError, which the except block records.
ExecStart(e) ==
  /\ LoopFree
  /\ exec[e].pc = "scheduled"
  /\ LET id == exec[e].task_id IN
       IF id \in DOMAIN tasks /\ PoolShutDown
       THEN /\ tasks' = Put(tasks, id,
                            execute_task_result(
                              update_task(tasks[id], Some(RUNNING), None, None, None, None, None, now),
                              Raises("cannot schedule new futures after shutdown"), now))
            /\ exec' = [exec EXCEPT ![e].pc = "done"]
            /\ UNCHANGED poolQueue
       ELSE IF id \in DOMAIN tasks
       THEN /\ tasks' = Put(tasks, id,
                            update_task(tasks[id], Some(RUNNING), None, None, None, None, None, now))
            /\ exec' = [exec EXCEPT ![e].pc = "queued",
                                    ![e].message = tasks[id].message,
                                    ![e].session_id = tasks[id].session_id,
                                    ![e].project_path = tasks[id].project_path]
            /\ poolQueue' = Append(poolQueue, e)
       ELSE /\ exec' = [exec EXCEPT ![e].pc = "escaped"]
            /\ UNCHANGED <<tasks, poolQueue>>
  /\ UNCHANGED <<now, nextTaskId, reaperSleep, ret>>
  /\ UNCHANGED <<gitVars, lifecycle, upd>>

\* A variant of the pool that starts a thread for every call.
worker_always_free == TRUE

\* ThreadPoolExecutor(max_workers): a thread takes a call only while fewer
\* than max_workers calls are running.
WorkerFree == Cardinality(Busy) < MaxWorkers

\* A free worker thread of the pool takes the oldest queued call.
WorkerStart(e) ==
  /\ poolQueue # <<>>
  /\ Head(poolQueue) = e
  /\ WorkerFree
  /\ exec' = [exec EXCEPT ![e].pc = "executing"]
  /\ poolQueue' = Tail(poolQueue)
  /\ UNCHANGED <<now, tasks, nextTaskId, reaperSleep, ret>>
  /\ UNCHANGED <<gitVars, lifecycle, upd>>

\* The worker's execute_chat call returns or raises.
WorkerFinish(e) ==
  /\ exec[e].pc = "executing"
  /\ \E o \in execute_chat(exec[e].message, exec[e].session_id, exec[e].project_path) :
       exec' = [exec EXCEPT ![e].pc = "finished", ![e].outcome = o]
  /\ UNCHANGED <<now, tasks, nextTaskId, poolQueue, reaperSleep, ret>>
  /\ UNCHANGED <<gitVars, lifecycle, upd>>

\* execute_task after the await: the update_task of the try block, or the
\* one of the except block.  When the task is gone both raise NotFound and
\* the second one leaves the coroutine.
ExecResume(e) ==
  /\ LoopFree
  /\ exec[e].pc = "finished"
  /\ LET id == exec[e].task_id IN
       IF id \in DOMAIN tasks
       THEN /\ tasks' = Put(tasks, id, execute_task_result(tasks[id], exec[e].outcome, now))
            /\ exec' = [exec EXCEPT ![e].pc = "done"]
       ELSE /\ exec' = [exec EXCEPT ![e].pc = "escaped"]
            /\ UNCHANGED tasks
  /\ UNCHANGED <<now, nextTaskId, poolQueue, reaperSleep, ret>>
  /\ UNCHANGED <<gitVars, lifecycle, upd>>

\* cleanup_expired_tasks_periodically: after the sleep, one cleanup_expired.
ReaperSweep ==
  /\ LoopFree
  /\ lifecycle.reaper = "sleeping"
  /\ reaperSleep = 0
  /\ tasks' = Without(tasks, expired_ids(tasks, now))
  /\ reaperSleep' = CLEANUP_INTERVAL_MINUTES
  /\ ret' = Ret("cleanup_expired", 0, "ok", Cardinality(expired_ids(tasks, now)))
  /\ UNCHANGED <<now, nextTaskId, exec, poolQueue>>
  /\ UNCHANGED <<gitVars, lifecycle, upd>>

Max(a, b) == IF a >= b THEN a ELSE b

\* The clock advances by d minutes; a sleeping reaper gets closer to waking.
Tick(d) ==
  /\ now + d <= MaxTime
  /\ now' = now + d
  /\ reaperSleep' = Max(0, reaperSleep - d)
  /\ UNCHANGED <<tasks, nextTaskId, exec, poolQueue, ret>>
  /\ UNCHANGED <<gitVars, lifecycle, upd>>

TickSteps == {60, 61}

\* ------------------------------------------------- cleanup loop, shutdown
\* What the cleanup loop may get at one of its awaits.
ReaperExceptions == {"Exception", "CancelledError"}

\* A variant of the loop's handler that catches nothing.
reaper_catches_nothing(exc) == FALSE

\* A variant of the loop's handler with a bare except.
reaper_catches_everything(exc) == TRUE

\* "except Exception" in cleanup_expired_tasks_periodically:
\* asyncio.CancelledError derives from BaseException and passes through.
reaper_catches(exc) == exc # "CancelledError"

\* The cleanup task after exception exc reached its loop body: back to the
\* sleep when the handler caught it, ended otherwise.
reaper_after(exc) ==
  IF reaper_catches(exc) THEN "sleeping"
  ELSE IF exc = "CancelledError" THEN "cancelled" ELSE "failed"

\* A sweep that raises: cleanup_expired fails, the store stays as it is.
ReaperSweepFails ==
  /\ LoopFree
  /\ lifecycle.reaper = "sleeping"
  /\ reaperSleep = 0
  /\ lifecycle' = [lifecycle EXCEPT !.reaper = reaper_after("Exception")]
  /\ reaperSleep' = CLEANUP_INTERVAL_MINUTES
  /\ ret' = Ret("cleanup_expired", 0, "raised", 0)
  /\ UNCHANGED <<now, tasks, nextTaskId, exec, poolQueue>>
  /\ UNCHANGED <<gitVars, upd>>

\* shutdown_event up to "await cleanup_task": cleanup_task.cancel() asks for
\* a CancelledError in the cleanup task, wherever it is suspended.
ShutdownBegin ==
  /\ lifecycle.shutdown = "running"
  /\ lifecycle' = [shutdown |-> "awaiting_reaper",
                   reaper |-> IF lifecycle.reaper = "sleeping" THEN "cancelling"
                              ELSE lifecycle.reaper]
  /\ UNCHANGED <<now, tasks, nextTaskId, exec, poolQueue, reaperSleep, ret>>
  /\ UNCHANGED <<gitVars, upd>>

\* The cleanup task is resumed with the CancelledError.
ReaperCancelled ==
  /\ LoopFree
  /\ lifecycle.reaper = "cancelling"
  /\ lifecycle' = [lifecycle EXCEPT !.reaper = reaper_after("CancelledError")]
  /\ reaperSleep' = IF reaper_catches("CancelledError") THEN CLEANUP_INTERVAL_MINUTES
                    ELSE reaperSleep
  /\ UNCHANGED <<now, tasks, nextTaskId, exec, poolQueue, ret>>
  /\ UNCHANGED <<gitVars, upd>>

\* "await cleanup_task" ends when the task has ended: its CancelledError is
\* caught and shutdown goes on into executor.shutdown(); the exception of a
\* task that failed is raised out of shutdown_event.
ShutdownAwaited ==
  /\ lifecycle.shutdown = "awaiting_reaper"
  /\ lifecycle.reaper \in {"cancelled", "failed"}
  /\ lifecycle' = [lifecycle EXCEPT !.shutdown = IF lifecycle.reaper = "cancelled"
                                                  THEN "executor" ELSE "raised"]
  /\ UNCHANGED <<now, tasks, nextTaskId, exec, poolQueue, reaperSleep, ret>>
  /\ UNCHANGED <<gitVars, upd>>

\* A variant of the pool's shutdown that does not wait (wait=False).
executor_not_waited == TRUE

\* ThreadPoolExecutor.shutdown(wait=True) returns when the queue is empty
\* and every worker thread has ended.
executor_drained == Busy = {} /\ poolQueue = << >>

\* executor.shutdown() returns; shutdown_event goes on to "await close_db()".
ShutdownExecutor ==
  /\ lifecycle.shutdown = "executor"
  /\ executor_drained
  /\ lifecycle' = [lifecycle EXCEPT !.shutdown = "closing_db"]
  /\ UNCHANGED <<now, tasks, nextTaskId, exec, poolQueue, reaperSleep, ret>>
  /\ UNCHANGED <<gitVars, upd>>

\* close_db() has returned; shutdown_event ends.
ShutdownDone ==
  /\ lifecycle.shutdown = "closing_db"
  /\ lifecycle' = [lifecycle EXCEPT !.shutdown = "done"]
  /\ UNCHANGED <<now, tasks, nextTaskId, exec, poolQueue, reaperSleep, ret>>
  /\ UNCHANGED <<gitVars, upd>>

\* The clock of the lifecycle runs in steps of half an hour.
LifeTickSteps == {30}

\* The requests sent while the lifecycle is followed: new conversations.
LifeRequests == {req \in Requests : req.session_id = None /\ req.project_path = None}

CreateChatTaskLife == CreateChatTaskOf(LifeRequests)

TickLife == \E d \in LifeTickSteps : Tick(d)

TickTask == \E d \in TickSteps : Tick(d)

\* The clock of the fair service: one step past the TTL of a task.
LiveTickSteps == {61}

TickLive == \E d \in LiveTickSteps : Tick(d)

\* ------------------------------------------------- direct calls of the store
UpdateArgs ==
  { [status |-> s, result |-> None, error |-> None, exit_code |-> None, stderr |-> None, session_id |-> None] :
      s \in {None, Some(PENDING), Some(RUNNING)} }
  \cup { [status |-> Some(COMPLETED), result |-> Some("Done"), error |-> None,
          exit_code |-> Some(0), stderr |-> Some(""), session_id |-> Some("sess-9")],
         [status |-> Some(FAILED), result |-> None, error |-> Some("boom"),
          exit_code |-> None, stderr |-> None, session_id |-> None] }

\* The arguments the direct create_task calls pass.
StoreRequests == {[message |-> "Test", session_id |-> None, project_path |-> None]}

CreateTaskCall ==
  /\ nextTaskId <= MaxTasks
  /\ \E req \in StoreRequests :
       tasks' = Put(tasks, nextTaskId,
                    create_task(req.message, req.session_id, req.project_path, now))
  /\ nextTaskId' = nextTaskId + 1
  /\ ret' = Ret("create_task", 0, PENDING, 0)
  /\ UNCHANGED <<now, exec, poolQueue, reaperSleep>>
  /\ UNCHANGED <<gitVars, lifecycle, upd>>

UpdateTaskCall ==
  /\ \E id \in TaskIds, a \in UpdateArgs :
       IF id \in DOMAIN tasks
       THEN /\ tasks' = Put(tasks, id,
                            update_task(tasks[id], a.status, a.result, a.error,
                                        a.exit_code, a.stderr, a.session_id, now))
            /\ ret' = [Ret("update_task", id, "ok", 0) EXCEPT !.status = a.status]
       ELSE /\ ret' = Ret("update_task", 0, "NotFound", 0)
            /\ UNCHANGED tasks
  /\ UNCHANGED <<now, nextTaskId, exec, poolQueue, reaperSleep>>
  /\ UNCHANGED <<gitVars, lifecycle, upd>>

CleanupCall ==
  /\ tasks' = Without(tasks, expired_ids(tasks, now))
  /\ ret' = Ret("cleanup_expired", 0, "ok", Cardinality(expired_ids(tasks, now)))
  /\ UNCHANGED <<now, nextTaskId, exec, poolQueue, reaperSleep>>
  /\ UNCHANGED <<gitVars, lifecycle, upd>>

\* A direct call execute_task(task_id, skip) with any id.
ExecuteCall ==
  /\ \E e \in ExecSlots : exec[e].pc = "idle"
  /\ \E id \in TaskIds, skip \in BOOLEAN : exec' = Schedule(FreeSlot, id, skip)
  /\ UNCHANGED <<now, tasks, nextTaskId, poolQueue, reaperSleep, ret>>
  /\ UNCHANGED <<gitVars, lifecycle, upd>>

\* ------------------------------------- overlapping calls of update_task
\* Callers that each send one update_task call, as the coroutines handed to
\* asyncio.gather do: every call is first pending on the event loop and then
\* runs.
UpdProcs == 1..MaxCalls

IdleUpd ==
  [pc |-> "idle", id |-> 0, args |-> None, k |-> 0, order |-> 0, at |-> 0]

\* The updates finished so far: the next one is number Len + 1.
UpdDone == {u \in UpdProcs : upd[u].pc = "done"}

\* A variant whose body gives the event loop away after writing the status,
\* with the other fields still to be written.
update_steps_yielding(task, a, t) ==
  << [task EXCEPT !.status = IF a.status # None THEN a.status[1] ELSE @],
     update_task(task, a.status, a.result, a.error, a.exit_code, a.stderr,
                 a.session_id, t) >>

\* The values of the stored TaskInfo that other coroutines can see while one
\* update_task call runs, in order.  The block under `async with self._lock`
\* holds no await and the lock, never kept across one, is free when asked
\* for: the call runs in one piece and only its final value is visible.
update_steps(task, a, t) ==
  << update_task(task, a.status, a.result, a.error, a.exit_code, a.stderr,
                 a.session_id, t) >>

\* The updates the overlapping callers send: a terminal status with the
\* fields that belong to it.
GatheredUpdates == {a \in UpdateArgs : a.status \in {Some(COMPLETED), Some(FAILED)}}

\* A caller schedules update_task(id, ...) next to the calls already pending.
UpdCall(u) ==
  /\ upd[u].pc = "idle"
  /\ \A v \in UpdProcs : v < u => upd[v].pc # "idle"
  /\ \E id \in TaskIds, a \in GatheredUpdates :
       upd' = [upd EXCEPT ![u] = [IdleUpd EXCEPT !.pc = "called", !.id = id,
                                                 !.args = Some(a)]]
  /\ UNCHANGED <<now, tasks, nextTaskId, exec, poolQueue, reaperSleep, lifecycle, ret>>
  /\ UNCHANGED gitVars

\* The event loop runs a pending call up to the next point where it gives
\* the loop away: NotFound for an unknown id, else the next visible value of
\* the task; after the last one the call returns the task.  How the call
\* ended is kept in the caller's own record.
UpdRun(u) ==
  /\ upd[u].pc = "called"
  /\ LET id == upd[u].id
         a == upd[u].args[1]
     IN IF id \notin DOMAIN tasks
        THEN /\ upd' = [upd EXCEPT ![u].pc = "raised"]
             /\ UNCHANGED tasks
        ELSE LET steps == update_steps(tasks[id], a, now)
                 k == upd[u].k + 1
             IN /\ tasks' = Put(tasks, id, steps[k])
                /\ IF k = Len(steps)
                   THEN upd' = [upd EXCEPT ![u].pc = "done", ![u].k = k,
                                           ![u].order = Cardinality(UpdDone) + 1,
                                           ![u].at = now]
                   ELSE upd' = [upd EXCEPT ![u].k = k]
  /\ UNCHANGED <<now, nextTaskId, exec, poolQueue, reaperSleep, lifecycle, ret>>
  /\ UNCHANGED gitVars

\* A reader: get_task(id) hands back the stored TaskInfo as it is.
GetTaskCall ==
  /\ \E id \in TaskIds :
       ret' = IF id \in DOMAIN tasks
              THEN [Ret("get_task", id, tasks[id].status, 0)
                      EXCEPT !.status = Some(tasks[id])]
              ELSE Ret("get_task", id, "NotFound", 0)
  /\ UNCHANGED <<now, tasks, nextTaskId, exec, poolQueue, reaperSleep>>
  /\ UNCHANGED <<gitVars, lifecycle, upd>>

StoreTickSteps == {61}

TickStore == \E d \in StoreTickSteps : Tick(d)

\* ------------------------------------------------------ Credential vault
\* A string is a sequence of character codes (code points); "" is << >>.
\* The code points Python keeps for surrogates.
Surrogate(c) == c \in 55296..57343

\* str.encode() accepts every string without a surrogate in it.
Encodable(str) == \A i \in 1..Len(str) : ~Surrogate(str[i])

\* The UTF-8 bytes of one code point of the basic plane.
Utf8Char(c) ==
  IF c < 128 THEN <<c>>
  ELSE IF c < 2048 THEN <<192 + (c \div 64), 128 + (c % 64)>>
  ELSE <<224 + (c \div 4096), 128 + ((c \div 64) % 64), 128 + (c % 64)>>

\* str.encode(): the UTF-8 bytes of an encodable string.
RECURSIVE Utf8Encode(_)
Utf8Encode(str) ==
  IF str = << >> THEN << >> ELSE Utf8Char(Head(str)) \o Utf8Encode(Tail(str))

\* bytes.decode(): the string of well-formed UTF-8 bytes.
RECURSIVE Utf8Decode(_)
Utf8Decode(bytes) ==
  IF bytes = << >> THEN << >>
  ELSE IF bytes[1] < 128
  THEN <<bytes[1]>> \o Utf8Decode(Tail(bytes))
  ELSE IF bytes[1] < 224
  THEN <<(bytes[1] - 192) * 64 + (bytes[2] - 128)>> \o Utf8Decode(SubSeq(bytes, 3, Len(bytes)))
  ELSE <<(bytes[1] - 224) * 4096 + (bytes[2] - 128) * 64 + (bytes[3] - 128)>>
         \o Utf8Decode(SubSeq(bytes, 4, Len(bytes)))

\* EncryptionService.encrypt on an encodable string: "" stays "", anything
\* else becomes a Fernet token (here: the version byte followed by the
\* encoded plaintext).
Encrypt(plaintext) ==
  IF plaintext = << >> THEN << >> ELSE <<0>> \o Utf8Encode(plaintext)

\* EncryptionService.decrypt on "" or a Fernet token: "" stays "", a token
\* gives its decoded plaintext.
Decrypt(ciphertext) ==
  IF ciphertext = << >> THEN << >> ELSE Utf8Decode(Tail(ciphertext))

\* The outcome of a vault call: the value returned, or the exception.
VaultOk(out) == [res |-> "ok", out |-> out]
VaultRaises(exc) == [res |-> exc, out |-> << >>]

\* EncryptionService.encrypt, the whole call: plaintext.encode() raises for
\* a string that holds a surrogate.
encrypt(plaintext) ==
  IF plaintext = << >> THEN VaultOk(<< >>)
  ELSE IF ~Encodable(plaintext) THEN VaultRaises("UnicodeEncodeError")
  ELSE VaultOk(Encrypt(plaintext))

\* EncryptionService.decrypt, the whole call: Fernet refuses what is not one
\* of its tokens.
decrypt(ciphertext) ==
  IF ciphertext = << >> THEN VaultOk(<< >>)
  ELSE IF Head(ciphertext) # 0 THEN VaultRaises("InvalidToken")
  ELSE VaultOk(Decrypt(ciphertext))

\* The characters of the strings handed to the vault: 'a', e-acute, the euro
\* sign, and a lone surrogate as json.loads gives it for "\ud800".
VaultChars == {97, 233, 8364, 55296}
VaultStrings == UNION {[1..n -> VaultChars] : n \in 0..MaxLen}

\* What decrypt is called with: "", tokens of the vault, and another string.
VaultCiphertexts ==
  {Encrypt(str) : str \in {x \in VaultStrings : Encodable(x)}} \cup {<<1>>}

VaultRet(op, input, outcome) ==
  [Ret(op, 0, outcome.res, 0) EXCEPT !.status = Some(<<input, outcome.out>>)]

EncryptCall ==
  /\ \E plaintext \in VaultStrings : ret' = VaultRet("encrypt", plaintext, encrypt(plaintext))
  /\ UNCHANGED <<now, gitVars>>
  /\ UNCHANGED taskVars

DecryptCall ==
  /\ \E ciphertext \in VaultCiphertexts :
       ret' = VaultRet("decrypt", ciphertext, decrypt(ciphertext))
  /\ UNCHANGED <<now, gitVars>>
  /\ UNCHANGED taskVars

\* decrypt(encrypt(x)), as the service does with a token it stores and
\* later hands out.
RoundTripCall ==
  /\ \E x \in VaultStrings :
       ret' = VaultRet("round_trip", x,
                       IF encrypt(x).res = "ok" THEN decrypt(encrypt(x).out) ELSE encrypt(x))
  /\ UNCHANGED <<now, gitVars>>
  /\ UNCHANGED taskVars

\* ------------------------------------------------------------- GitService
Providers == {"github", "gitlab"}
SelfHosted == {"gitlab", "gitea"}
RedirectUris == {"app://cb", "evil://cb"}
InstanceUrls ==
  {None, Some("https://gitlab.example.com"), Some("http://gitlab.example.com"),
   Some("https://-gitlab")}
\* The redirect_uri the application registers with initiate_oauth.
InitiateUris == {"app://cb"}
\* The (provider, instance_url) pairs callers send to initiate_oauth.
InitiateTargets ==
  {<<"github", None>>} \cup {<<"gitlab", url>> : url \in InstanceUrls}
IsHttps(url) == url \in {"https://gitlab.example.com", "https://-gitlab"}
WellFormedUrl(url) == url = "https://gitlab.example.com"

\* PKCE values a caller may send, as character sequences.
PkceValues == { <<"a", "-">>, << >>, <<"a", "!">>, <<"a", "\n">> }
PkceChar(c) == c \in {"a", "Z", "0", "-", "_", "~"}

\* _validate_pkce_parameter: re.match(r'^[A-Za-z0-9\-_~]+$', value).  In
\* Python '$' also matches just before a newline that ends the string.
ValidPkce(value) ==
  \E n \in 1..Len(value) :
     /\ \A i \in 1..n : PkceChar(value[i])
     /\ \/ n = Len(value)
        \/ n = Len(value) - 1 /\ value[Len(value)] = "\n"

\* A variant that sweeps every state, whatever its age.
expired_states_any_age(states, t) == DOMAIN states

\* _cleanup_expired_oauth_states: the states it deletes at time t.
expired_states(states, t) ==
  {st \in DOMAIN states : t - states[st].created_at > OAUTH_STATE_EXPIRY_MINUTES}

\* A variant that leaves the state in place.
keep_state(states, st) == states

\* handle_oauth_callback's "del self._oauth_states[state]".
delete_state(states, st) == Without(states, {st})

StateIds == 1..MaxStates
ConnIds == 1..MaxConns
CbProcs == 1..MaxCallbacks
TkProcs == 1..MaxCalls

\* The expires_in values a provider may send (minutes), or none.
ExpiresIns == {None, Some(30)}

\* A token endpoint answer: a network error, a non-200 status, or a 200 body.
\* The authorization_code grant issues the tokens <<0>> (access) and <<0, 0>>
\* (refresh); the n-th refresh_token grant issues <<n>> and <<n, n>>.
TokenReplies(n) ==
  { [kind |-> k, access |-> << >>, refresh |-> None, expires_in |-> None] : k \in {"neterr", "non200"} }
  \cup { [kind |-> "ok", access |-> << >>, refresh |-> None, expires_in |-> None] }
  \cup { [kind |-> "ok", access |-> <<n>>, refresh |-> r, expires_in |-> x] :
            r \in {None, Some(<<n, n>>)}, x \in ExpiresIns }

\* The answers to the authorization_code grant: failures, and the two shapes
\* providers use, a non-expiring token without refresh token (GitHub) and an
\* expiring token with one (GitLab).
CodeGrantReplies ==
  {reply \in TokenReplies(0) :
     reply.access # << >> => (reply.refresh = None <=> reply.expires_in = None)}

IdleCb ==
  [pc |-> "idle", provider |-> "", state |-> 0, redirect_uri |-> "",
   access |-> << >>, refresh |-> None, expires_at |-> None,
   started_at |-> 0, state_created |-> 0, after_consumed |-> FALSE,
   verifier_ok |-> FALSE, mismatch |-> FALSE, token_reply |-> "", user_reply |-> "",
   res |-> "", conn |-> 0]

\* The checks at the head of initiate_oauth: the code_challenge, and for a
\* self-hosted provider the instance_url.
initiate_rejects(provider, url, challenge) ==
  \/ ~ValidPkce(challenge)
  \/ provider \in SelfHosted /\ url = None
  \/ provider \in SelfHosted /\ url # None /\ ~IsHttps(url[1])
  \/ provider \in SelfHosted /\ url # None /\ ~WellFormedUrl(url[1])

\* A variant that sweeps the cache before it validates.
initiate_oauth_sweeps_first(states, t, id, provider, url, challenge, uri) ==
  IF initiate_rejects(provider, url, challenge)
  THEN [res |-> "BadRequest", states |-> Without(states, expired_states(states, t))]
  ELSE [res |-> "ok",
        states |-> Put(Without(states, expired_states(states, t)), id,
                       [provider |-> provider, instance_url |-> url,
                        redirect_uri |-> uri, created_at |-> t])]

\* initiate_oauth (synchronous): validation, the expiry sweep, a fresh state.
\* Its outcome and the cache it leaves.
initiate_oauth(states, t, id, provider, url, challenge, uri) ==
  IF initiate_rejects(provider, url, challenge)
  THEN [res |-> "BadRequest", states |-> states]
  ELSE [res |-> "ok",
        states |-> Put(Without(states, expired_states(states, t)), id,
                       [provider |-> provider, instance_url |-> url,
                        redirect_uri |-> uri, created_at |-> t])]

Initiate ==
  \E target \in InitiateTargets, challenge \in PkceValues, uri \in InitiateUris :
   LET r == initiate_oauth(oauth_states, now, nextState, target[1], target[2], challenge, uri)
   IN
    /\ nextState <= MaxStates
    /\ oauth_states' = r.states
    /\ nextState' = IF r.res = "ok" THEN nextState + 1 ELSE nextState
    /\ UNCHANGED <<now, ret, conns, connState, cb, tokenVars>>
    /\ UNCHANGED taskVars

\* The same call with its arguments and outcome on record: status holds the
\* arguments, id the state it made (0 when rejected), n the minute of the call.
InitiateArgs(target, challenge) ==
  [provider |-> target[1], instance_url |-> target[2], code_challenge |-> challenge]

InitiateCall ==
  \E target \in InitiateTargets, challenge \in PkceValues, uri \in InitiateUris :
   LET r == initiate_oauth(oauth_states, now, nextState, target[1], target[2], challenge, uri)
   IN
    /\ nextState <= MaxStates
    /\ oauth_states' = r.states
    /\ nextState' = IF r.res = "ok" THEN nextState + 1 ELSE nextState
    /\ ret' = [Ret("initiate_oauth", IF r.res = "ok" THEN nextState ELSE 0, r.res, now)
                 EXCEPT !.status = Some(InitiateArgs(target, challenge))]
    /\ UNCHANGED <<now, conns, connState, cb, tokenVars>>
    /\ UNCHANGED taskVars

\* The clock between initiate calls, in steps below and above the 15 minutes
\* a state lives.
InitiateTickSteps == {10, 20}

TickInitiate ==
  /\ \E d \in InitiateTickSteps : now + d <= MaxTime /\ now' = now + d
  /\ UNCHANGED <<ret, gitVars>>
  /\ UNCHANGED taskVars

\* The coroutine ends with an exception of this kind; its locals are gone.
CbFail(p, kind) ==
  [cb EXCEPT ![p] = [IdleCb EXCEPT !.pc = "raised", !.res = kind,
                                   !.verifier_ok = cb[p].verifier_ok,
                                   !.after_consumed = cb[p].after_consumed]]

Consumed(st) == \E q \in CbProcs : cb[q].pc = "returned" /\ cb[q].state = st

CbRaise(p, st, ok, kind) ==
  [cb EXCEPT ![p] = [IdleCb EXCEPT !.pc = "raised", !.res = kind,
                                   !.verifier_ok = ok, !.after_consumed = Consumed(st)]]

\* A variant that compares the provider only.
callback_check_provider_only(stored, provider, uri) ==
  IF stored.provider # provider THEN "BadRequest" ELSE ""

\* The two comparisons of the callback's arguments with the stored state:
\* the exception they raise, "" when both match.
callback_check(stored, provider, uri) ==
  IF stored.provider # provider THEN "BadRequest"
  ELSE IF stored.redirect_uri # uri THEN "BadRequest"
  ELSE ""

\* The callback's provider or redirect_uri is not the one initiate stored.
Differs(stored, provider, uri) ==
  stored.provider # provider \/ stored.redirect_uri # uri

\* handle_oauth_callback up to its first await: the code_verifier check, the
\* state lookup, the provider and redirect_uri checks; then the token request.
CbStart(p) ==
  /\ cb[p].pc = "idle"
  /\ \A q \in CbProcs : q < p => cb[q].pc # "idle"
  /\ \E st \in StateIds, verifier \in PkceValues :
       IF ~ValidPkce(verifier)
       THEN cb' = CbRaise(p, st, FALSE, "BadRequest")
       ELSE IF st \notin DOMAIN oauth_states
       THEN cb' = CbRaise(p, st, TRUE, "NotFound")
       ELSE \E provider \in Providers, uri \in RedirectUris :
              cb' = IF callback_check(oauth_states[st], provider, uri) # ""
                    THEN [CbRaise(p, st, TRUE, callback_check(oauth_states[st], provider, uri))
                            EXCEPT ![p].mismatch = Differs(oauth_states[st], provider, uri)]
                    ELSE [cb EXCEPT ![p] = [IdleCb EXCEPT !.pc = "exchanging",
                                              !.provider = provider,
                                              !.mismatch = Differs(oauth_states[st], provider, uri),
                                              !.state = st, !.redirect_uri = uri,
                                              !.started_at = now,
                                              !.state_created = oauth_states[st].created_at,
                                              !.verifier_ok = TRUE,
                                              !.after_consumed = Consumed(st)]]
  /\ UNCHANGED <<now, ret, oauth_states, nextState, conns, connState, tokenVars>>
  /\ UNCHANGED taskVars

\* The provider answers the authorization_code grant and then the user
\* request; the coroutine touches nothing shared between the two.  With both
\* answers 200 and an access token present the row is built and the commit begins.
UserReplies == {"ok", "non200", "neterr"}

\* A variant that does not look at the answer to the user request.
exchange_failure_token_only(reply, user) ==
  IF reply.kind = "neterr" THEN "HTTPError"
  ELSE IF reply.kind = "non200" \/ reply.access = << >> THEN "BadRequest"
  ELSE ""

\* The exception the two provider requests of the callback end with, "" when
\* both went through: the token request fails, answers another status than
\* 200 or sends no access token; then the same for the user request.
exchange_failure(reply, user) ==
  IF reply.kind = "neterr" THEN "HTTPError"
  ELSE IF reply.kind = "non200" \/ reply.access = << >> THEN "BadRequest"
  ELSE IF user = "neterr" THEN "HTTPError"
  ELSE IF user = "non200" THEN "BadRequest"
  ELSE ""

\* The token request and, with the access token it brought, the user request.
CbExchange(p) ==
  /\ cb[p].pc = "exchanging"
  /\ \E reply \in CodeGrantReplies : \E user \in UserReplies :
              cb' = IF exchange_failure(reply, user) # ""
                    THEN CbFail(p, exchange_failure(reply, user))
                    ELSE [cb EXCEPT ![p].pc = "committing", ![p].access = reply.access,
                                    ![p].token_reply = reply.kind,
                                    ![p].user_reply = user,
                                    ![p].refresh = reply.refresh,
                                    ![p].expires_at = IF reply.expires_in # None
                                                      THEN Some(now + reply.expires_in[1])
                                                      ELSE None]
  /\ UNCHANGED <<now, ret, oauth_states, nextState, conns, connState, tokenVars>>
  /\ UNCHANGED taskVars

\* A fresh connection id (token_urlsafe(16) never repeats).
NextConn == Cardinality(DOMAIN connState) + 1

\* The row handle_oauth_callback inserts.
new_connection(c) ==
  [provider |-> c.provider,
   access_token_encrypted |-> Encrypt(c.access),
   refresh_token_encrypted |-> IF c.refresh # None THEN Some(Encrypt(c.refresh[1])) ELSE None,
   token_expires_at |-> c.expires_at,
   last_used_at |-> None]

\* The commit ends; then the state is deleted and the connection returned.
\* Deleting a state that is no longer there raises KeyError.
CbCommit(p) ==
  /\ cb[p].pc = "committing"
  /\ conns' = Put(conns, NextConn, new_connection(cb[p]))
  /\ connState' = Put(connState, NextConn, cb[p].state)
  /\ IF cb[p].state \in DOMAIN oauth_states
     THEN /\ oauth_states' = delete_state(oauth_states, cb[p].state)
          /\ cb' = [cb EXCEPT ![p] = [IdleCb EXCEPT !.pc = "returned", !.res = "Connection",
                                                    !.conn = NextConn, !.state = cb[p].state,
                                                    !.started_at = cb[p].started_at,
                                                    !.state_created = cb[p].state_created,
                                                    !.verifier_ok = TRUE,
                                                    !.after_consumed = cb[p].after_consumed]]
     ELSE /\ cb' = [cb EXCEPT ![p] = [CbFail(p, "KeyError")[p] EXCEPT !.conn = NextConn]]
          /\ UNCHANGED oauth_states
  /\ UNCHANGED <<now, ret, nextState, tokenVars>>
  /\ UNCHANGED taskVars

GitTickSteps == {40}

TickOAuth ==
  /\ \E d \in GitTickSteps : now + d <= MaxTime /\ now' = now + d
  /\ UNCHANGED <<ret, gitVars>>
  /\ UNCHANGED taskVars

\* ------------------------------------------- the connections of the store
\* A variant that puts the stored access token into the API model.
db_connection_with_token(id, row) ==
  [id |-> id, provider |-> row.provider, is_active |-> TRUE,
   access_token |-> row.access_token_encrypted]

\* _db_connection_to_api: the GitConnection built from a row.  Every row is
\* inserted with is_active = True and nothing changes that column.
db_connection_to_api(id, row) ==
  [id |-> id, provider |-> row.provider, is_active |-> TRUE]

\* GitService.get_connection on a store: the call's outcome.
get_connection(store, id) ==
  IF id \in DOMAIN store
  THEN [Ret("get_connection", id, "Connection", 0)
          EXCEPT !.status = Some(db_connection_to_api(id, store[id]))]
  ELSE Ret("get_connection", id, "NotFound", 0)

\* GitService.list_connections on a store: the active rows, converted.
list_connections(store) ==
  [Ret("list_connections", 0, "ok", Cardinality(DOMAIN store))
     EXCEPT !.status = Some({db_connection_to_api(id, store[id]) : id \in DOMAIN store})]

\* The locals of handle_oauth_callback when it builds its row: the provider
\* and the tokens of a 200 answer, as first issued or as issued again later.
IssuedTokens ==
  { [provider |-> pr, access |-> reply.access, refresh |-> reply.refresh,
     expires_at |-> IF reply.expires_in # None THEN Some(reply.expires_in[1]) ELSE None] :
       pr \in Providers,
       reply \in {r \in TokenReplies(0) \cup TokenReplies(1) :
                    /\ r.access # << >>
                    /\ r.refresh = None <=> r.expires_in = None} }

\* The rows the table can hold.
ConnRows == {new_connection(c) : c \in IssuedTokens}

\* The stores the table can be: connections 1..n, any row each.
ConnStores == UNION {[1..n -> ConnRows] : n \in 0..MaxConns}

GetConnectionCall ==
  /\ \E id \in ConnIds : ret' = get_connection(conns, id)
  /\ UNCHANGED <<now, gitVars>>
  /\ UNCHANGED taskVars

ListConnectionsCall ==
  /\ ret' = list_connections(conns)
  /\ UNCHANGED <<now, gitVars>>
  /\ UNCHANGED taskVars

\* GitService.delete_connection, awaited: NotFound, or the row is deleted
\* and the deletion committed.
DeleteConnectionCall ==
  /\ \E id \in ConnIds :
       IF id \in DOMAIN conns
       THEN /\ conns' = Without(conns, {id})
            /\ ret' = Ret("delete_connection", id, "ok", 0)
       ELSE /\ ret' = Ret("delete_connection", id, "NotFound", 0)
            /\ UNCHANGED conns
  /\ UNCHANGED <<now, oauthVars, tokenVars>>
  /\ UNCHANGED taskVars

\* DELETE /git/connections/{id}.  GitController.delete_connection is a plain
\* function: its call of the service's coroutine function only creates a
\* coroutine, which is never awaited and so never runs, and it returns the
\* message dict; the route then awaits that dict, which raises TypeError.
DeleteRequest ==
  /\ \E id \in ConnIds : ret' = Ret("delete_request", id, "TypeError", 0)
  /\ UNCHANGED <<now, gitVars>>
  /\ UNCHANGED taskVars

\* ------------------------------------------------- get_decrypted_token
\* needs_refresh of get_decrypted_token, for a row and the call's "now".
\* A variant without the buffer: refresh only from the expiry on.
needs_refresh_at_expiry(row, t) ==
  /\ row.token_expires_at # None
  /\ t >= row.token_expires_at[1]

\* needs_refresh in get_decrypted_token: an expiry is stored and the clock
\* has reached it minus the buffer.
needs_refresh(row, t) ==
  /\ row.token_expires_at # None
  /\ t >= row.token_expires_at[1] - TOKEN_REFRESH_BUFFER_MINUTES

\* The condition under which get_decrypted_token goes for the lock.
wants_refresh(row, t) == needs_refresh(row, t) /\ row.refresh_token_encrypted # None

NoRow ==
  [provider |-> "", access_token_encrypted |-> << >>, refresh_token_encrypted |-> None,
   token_expires_at |-> None, last_used_at |-> None]

IdleTk ==
  [pc |-> "idle", conn |-> 0, now |-> 0, obj |-> NoRow, needs |-> FALSE,
   wrote_refresh |-> FALSE, wrote_expires |-> FALSE, conc |-> FALSE,
   refreshed |-> FALSE, req |-> 0, reply |-> "", res |-> "", token |-> << >>,
   checked |-> ""]

RECURSIVE SumOver(_, _)
SumOver(f, S) == IF S = {} THEN 0 ELSE LET x == CHOOSE y \in S : TRUE IN f[x] + SumOver(f, S \ {x})

\* The refresh_token grants sent so far, over all connections.
TotalRefreshCalls == SumOver(refreshCalls, ConnIds)

Release(c) == [lockHolder EXCEPT ![c] = 0]

\* A variant of the lock that lets everybody in.
lock_always_free(c) == TRUE

\* asyncio.Lock.acquire returns at once when the lock is free and nobody waits.
LockFree(c) == lockHolder[c] = 0 /\ lockWaiters[c] = << >>

\* A variant that never renews the expiry.
refreshed_row_keeps_expiry(row, reply, t) ==
  [row EXCEPT
     !.access_token_encrypted = Encrypt(reply.access),
     !.refresh_token_encrypted = IF reply.refresh # None THEN Some(Encrypt(reply.refresh[1])) ELSE @,
     !.last_used_at = Some(t)]

\* The row after _refresh_token has applied a 200 answer.
refreshed_row(row, reply, t) ==
  [row EXCEPT
     !.access_token_encrypted = Encrypt(reply.access),
     !.refresh_token_encrypted = IF reply.refresh # None THEN Some(Encrypt(reply.refresh[1])) ELSE @,
     !.token_expires_at = IF reply.expires_in # None THEN Some(t + reply.expires_in[1]) ELSE @,
     !.last_used_at = Some(t)]

\* What the session's commit writes: the attributes the call has set.
committed_row(row, call) ==
  [row EXCEPT
     !.access_token_encrypted = call.obj.access_token_encrypted,
     !.last_used_at = call.obj.last_used_at,
     !.refresh_token_encrypted = IF call.wrote_refresh THEN call.obj.refresh_token_encrypted ELSE @,
     !.token_expires_at = IF call.wrote_expires THEN call.obj.token_expires_at ELSE @]

\* get_decrypted_token up to its first suspension after the SELECT: not
\* found; or the current token at once; or on to the per-connection lock.
TkBegin(p, c) ==
  IF c \notin DOMAIN conns
  THEN /\ tk' = [tk EXCEPT ![p] = [IdleTk EXCEPT !.pc = "raised", !.conn = c,
                                               !.now = now, !.res = "NotFound"]]
       /\ UNCHANGED <<lockHolder, lockWaiters, firstDone>>
  ELSE LET row == conns[c]
           call == [IdleTk EXCEPT !.conn = c, !.now = now, !.obj = row,
                                  !.needs = needs_refresh(row, now),
                                  !.conc = ~firstDone[c]]
       IN IF wants_refresh(row, now)
          THEN IF LockFree(c)
               THEN /\ tk' = [tk EXCEPT ![p] = [call EXCEPT !.pc = "rereading"]]
                    /\ lockHolder' = [lockHolder EXCEPT ![c] = p]
                    /\ UNCHANGED <<lockWaiters, firstDone>>
               ELSE /\ tk' = [tk EXCEPT ![p] = [call EXCEPT !.pc = "waiting"]]
                    /\ lockWaiters' = [lockWaiters EXCEPT ![c] = Append(@, p)]
                    /\ UNCHANGED <<lockHolder, firstDone>>
          ELSE /\ tk' = [tk EXCEPT ![p] = [call EXCEPT !.pc = "returned", !.res = "token",
                                             !.token = Decrypt(row.access_token_encrypted)]]
               /\ firstDone' = [firstDone EXCEPT ![c] = TRUE]
               /\ UNCHANGED <<lockHolder, lockWaiters>>

TkStart(p) ==
  /\ tk[p].pc = "idle"
  /\ \A q \in TkProcs : q < p => tk[q].pc # "idle"
  /\ \E c \in ConnIds : TkBegin(p, c)
  /\ UNCHANGED <<now, ret, conns, oauthVars, refreshCalls, concCalls, rejected>>
  /\ UNCHANGED taskVars

\* check_connection_status up to the first suspension of the
\* get_decrypted_token call it makes: its own SELECT raises NotFound for an
\* unknown id, before the try block; otherwise the token call begins.
StatusStart(p) ==
  /\ tk[p].pc = "idle"
  /\ \A q \in TkProcs : q < p => tk[q].pc # "idle"
  /\ \E c \in ConnIds :
       IF c \notin DOMAIN conns
       THEN /\ tk' = [tk EXCEPT ![p] = [IdleTk EXCEPT !.pc = "raised", !.conn = c,
                                                    !.now = now, !.res = "NotFound",
                                                    !.checked = "raised"]]
            /\ UNCHANGED <<lockHolder, lockWaiters, firstDone>>
       ELSE TkBegin(p, c)
  /\ UNCHANGED <<now, ret, conns, oauthVars, refreshCalls, concCalls, rejected>>
  /\ UNCHANGED taskVars

\* The oldest waiter gets the released lock.
TkAcquire(p) ==
  /\ tk[p].pc = "waiting"
  /\ lockHolder[tk[p].conn] = 0
  /\ Head(lockWaiters[tk[p].conn]) = p
  /\ lockHolder' = [lockHolder EXCEPT ![tk[p].conn] = p]
  /\ lockWaiters' = [lockWaiters EXCEPT ![tk[p].conn] = Tail(@)]
  /\ tk' = [tk EXCEPT ![p].pc = "rereading"]
  /\ UNCHANGED <<now, ret, conns, oauthVars, refreshCalls, concCalls, firstDone,
                 rejected>>
  /\ UNCHANGED taskVars

\* Under the lock: session.refresh re-reads the committed row, needs_refresh
\* is evaluated again with the "now" read at the start, and either the
\* refresh request goes out or the lock is released and the token returned.
TkReread(p) ==
  /\ tk[p].pc = "rereading"
  /\ LET c == tk[p].conn
         row == conns[c]
         needs == IF row.token_expires_at # None THEN needs_refresh(row, tk[p].now)
                  ELSE tk[p].needs
     IN IF needs /\ row.refresh_token_encrypted # None
        THEN /\ tk' = [tk EXCEPT ![p].pc = "refreshing", ![p].obj = row, ![p].needs = needs,
                                 ![p].req = TotalRefreshCalls + 1]
             /\ refreshCalls' = [refreshCalls EXCEPT ![c] = @ + 1]
             /\ concCalls' = [concCalls EXCEPT ![c] = IF tk[p].conc THEN @ + 1 ELSE @]
             /\ UNCHANGED <<lockHolder, firstDone, rejected>>
        ELSE IF needs
        THEN /\ tk' = [tk EXCEPT ![p].pc = "raised", ![p].obj = row, ![p].res = "BadRequest"]
             /\ lockHolder' = Release(c)
             /\ firstDone' = [firstDone EXCEPT ![c] = TRUE]
             /\ rejected' = TRUE
             /\ UNCHANGED <<refreshCalls, concCalls>>
        ELSE /\ tk' = [tk EXCEPT ![p].pc = "returned", ![p].obj = row, ![p].needs = needs,
                                 ![p].res = "token",
                                 ![p].token = Decrypt(row.access_token_encrypted)]
             /\ lockHolder' = Release(c)
             /\ firstDone' = [firstDone EXCEPT ![c] = TRUE]
             /\ UNCHANGED <<refreshCalls, concCalls, rejected>>
  /\ UNCHANGED <<now, ret, conns, oauthVars, lockWaiters>>
  /\ UNCHANGED taskVars

\* A variant that takes every 200 answer for a success.
refresh_failed_on_status_only(reply) == reply.kind # "ok"

\* _refresh_token raises: the request failed, the status is not 200, or the
\* answer has no access token.
RefreshFailed(reply) == reply.kind # "ok" \/ reply.access = << >>

\* What the provider's answer was, for the record.
ReplyKind(reply) ==
  IF reply.kind # "ok" THEN reply.kind
  ELSE IF reply.access = << >> THEN "noaccess" ELSE "ok"

\* The token endpoint answers the refresh_token grant.  A failure raises
\* BadRequest and the session is rolled back; a success changes the session's
\* object, releases the lock and leaves the commit to the end of the session.
TkReply(p) ==
  /\ tk[p].pc = "refreshing"
  /\ \E reply \in TokenReplies(tk[p].req) :
       /\ IF RefreshFailed(reply)
          THEN /\ tk' = [tk EXCEPT ![p].pc = "raised", ![p].res = "BadRequest",
                                   ![p].reply = ReplyKind(reply)]
               /\ firstDone' = [firstDone EXCEPT ![tk[p].conn] = TRUE]
               /\ rejected' = TRUE
          ELSE /\ tk' = [tk EXCEPT ![p].pc = "committing",
                                   ![p].obj = refreshed_row(tk[p].obj, reply, now),
                                   ![p].wrote_refresh = reply.refresh # None,
                                   ![p].wrote_expires = reply.expires_in # None,
                                   ![p].refreshed = TRUE,
                                   ![p].reply = ReplyKind(reply),
                                   ![p].token = reply.access]
               /\ UNCHANGED <<firstDone, rejected>>
  /\ lockHolder' = Release(tk[p].conn)
  /\ UNCHANGED <<now, ret, conns, oauthVars, lockWaiters, refreshCalls, concCalls>>
  /\ UNCHANGED taskVars

\* get_session commits at the end of the "async with" block, after the lock
\* was released; then the caller gets the token.
TkCommit(p) ==
  /\ tk[p].pc = "committing"
  /\ conns' = [conns EXCEPT ![tk[p].conn] = committed_row(@, tk[p])]
  /\ tk' = [tk EXCEPT ![p].pc = "returned", ![p].res = "token"]
  /\ firstDone' = [firstDone EXCEPT ![tk[p].conn] = TRUE]
  /\ UNCHANGED <<now, ret, oauthVars, lockHolder, lockWaiters, refreshCalls,
                 concCalls, rejected>>
  /\ UNCHANGED taskVars

\* check_connection_status after get_decrypted_token: an exception of the
\* token call is caught and is_valid is false; with a token the user endpoint
\* is asked, is_valid is "status 200", a failed request counts as invalid,
\* and a valid check writes last_used_at.
StatusReport(p) ==
  /\ tk[p].checked = ""
  /\ tk[p].pc \in {"returned", "raised"}
  /\ IF tk[p].pc = "raised"
     THEN /\ tk' = [tk EXCEPT ![p].checked = "invalid"]
          /\ UNCHANGED conns
     ELSE \E user \in UserReplies :
            IF user = "ok"
            THEN /\ tk' = [tk EXCEPT ![p].checked = "valid"]
                 /\ conns' = [conns EXCEPT ![tk[p].conn].last_used_at = Some(now)]
            ELSE /\ tk' = [tk EXCEPT ![p].checked = "invalid"]
                 /\ UNCHANGED conns
  /\ UNCHANGED <<now, ret, oauthVars, lockHolder, lockWaiters, refreshCalls,
                 concCalls, firstDone, rejected>>
  /\ UNCHANGED taskVars

\* The clock steps of the token consumers: into the refresh buffer of a
\* token that expires at minute 30, and past its expiry.
TokenTickSteps == {20, 40}

TickToken ==
  /\ \E d \in TokenTickSteps : now + d <= MaxTime /\ now' = now + d
  /\ UNCHANGED <<ret, gitVars>>
  /\ UNCHANGED taskVars

\* ---------------------------------------------------------- specifications
TaskInit ==
  /\ tasks = << >>
  /\ nextTaskId = 1
  /\ exec = [e \in ExecSlots |-> IdleExec]
  /\ poolQueue = << >>
  /\ reaperSleep = CLEANUP_INTERVAL_MINUTES
  /\ lifecycle = [reaper |-> "sleeping", shutdown |-> "running"]
  /\ upd = [u \in UpdProcs |-> IdleUpd]

GitInit ==
  /\ oauth_states = << >>
  /\ nextState = 1
  /\ connState = << >>
  /\ cb = [p \in CbProcs |-> IdleCb]
  /\ tk = [p \in TkProcs |-> IdleTk]
  /\ lockHolder = [c \in ConnIds |-> 0]
  /\ lockWaiters = [c \in ConnIds |-> << >>]
  /\ refreshCalls = [c \in ConnIds |-> 0]
  /\ concCalls = [c \in ConnIds |-> 0]
  /\ firstDone = [c \in ConnIds |-> FALSE]
  /\ rejected = FALSE

Init ==
  /\ now = 0
  /\ ret = NoRet
  /\ TaskInit
  /\ GitInit
  /\ conns = << >>

ExecSteps ==
  \/ \E e \in ExecSlots : ExecStart(e)
  \/ \E e \in ExecSlots : WorkerStart(e)
  \/ \E e \in ExecSlots : WorkerFinish(e)
  \/ \E e \in ExecSlots : ExecResume(e)

\* The running service: create-task requests, their executions, the reaper.
NextTask == CreateChatTask \/ ExecSteps \/ ReaperSweep \/ TickTask
SpecTask == Init /\ [][NextTask]_vars

\* The running service under fair scheduling: the event loop runs every
\* coroutine that is ready, the pool hands a queued call to a free worker
\* thread, every execute_chat call ends (subprocess.run has a timeout), time
\* passes and the cleanup loop wakes up when its sleep is over.
NextLive == CreateChatTaskLife \/ ExecSteps \/ ReaperSweep \/ TickLive
TaskFairness ==
  \A e \in ExecSlots :
     /\ WF_vars(ExecStart(e))
     /\ WF_vars(WorkerStart(e))
     /\ WF_vars(WorkerFinish(e))
     /\ WF_vars(ExecResume(e))
SpecLive ==
  Init /\ [][NextLive]_vars /\ TaskFairness /\ WF_vars(ReaperSweep) /\ WF_vars(TickLive)

\* The service from startup to the end of shutdown_event: requests and
\* executions, the cleanup loop with sweeps that may fail, the shutdown.
NextLife ==
  \/ CreateChatTaskLife
  \/ ExecSteps
  \/ ReaperSweep
  \/ ReaperSweepFails
  \/ ShutdownBegin
  \/ ReaperCancelled
  \/ ShutdownAwaited
  \/ ShutdownExecutor
  \/ ShutdownDone
  \/ TickLife
SpecLife == Init /\ [][NextLife]_vars

\* The store called directly, in any order.
NextStore == CreateTaskCall \/ UpdateTaskCall \/ CleanupCall \/ TickStore
SpecStore == Init /\ [][NextStore]_vars

\* update_task calls that overlap, with readers in between.
NextUpdates ==
  \/ CreateTaskCall
  \/ \E u \in UpdProcs : UpdCall(u)
  \/ \E u \in UpdProcs : UpdRun(u)
  \/ GetTaskCall
  \/ TickStore
SpecUpdates == Init /\ [][NextUpdates]_vars

\* The executor called directly, for any task id.
NextExec == CreateTaskCall \/ ExecuteCall \/ ExecSteps
SpecExec == Init /\ [][NextExec]_vars

\* The OAuth flow: initiate calls and callbacks, overlapping freely.
NextOAuth ==
  \/ Initiate
  \/ \E p \in CbProcs : CbStart(p)
  \/ \E p \in CbProcs : CbExchange(p)
  \/ \E p \in CbProcs : CbCommit(p)
  \/ TickOAuth
SpecOAuth == Init /\ [][NextOAuth]_vars

\* Rows handle_oauth_callback may have stored for connection 1 at time 0:
\* with or without a refresh token, with or without an expiry.
StoredRows ==
  { [provider |-> "github", access_token_encrypted |-> Encrypt(<<0>>),
     refresh_token_encrypted |-> r, token_expires_at |-> x,
     last_used_at |-> None] :
       r \in {None, Some(Encrypt(<<0, 0>>))}, x \in ExpiresIns }

InitToken ==
  /\ now = 0
  /\ ret = NoRet
  /\ TaskInit
  /\ GitInit
  /\ \E row \in StoredRows : conns = Put(<< >>, 1, row)

InitConnections ==
  /\ now = 0
  /\ ret = NoRet
  /\ TaskInit
  /\ GitInit
  /\ conns \in ConnStores

\* The vault called with any string.
NextVault == EncryptCall \/ DecryptCall \/ RoundTripCall
SpecVault == Init /\ [][NextVault]_vars

\* The connections table read, listed and deleted from.
NextConnections ==
  \/ GetConnectionCall
  \/ ListConnectionsCall
  \/ DeleteConnectionCall
  \/ DeleteRequest
SpecConnections == InitConnections /\ [][NextConnections]_vars

\* initiate_oauth calls alone, each with its arguments and outcome on record.
NextInitiate ==
  \/ InitiateCall
  \/ TickInitiate
SpecInitiate == Init /\ [][NextInitiate]_vars

\* Token consumers: get_decrypted_token calls on the stored connections.
NextToken ==
  \/ \E p \in TkProcs : TkStart(p)
  \/ \E p \in TkProcs : TkAcquire(p)
  \/ \E p \in TkProcs : TkReread(p)
  \/ \E p \in TkProcs : TkReply(p)
  \/ \E p \in TkProcs : TkCommit(p)
  \/ TickToken
SpecToken == InitToken /\ [][NextToken]_vars

\* Status checks: check_connection_status calls on stored and unknown ids.
NextStatus ==
  \/ \E p \in TkProcs : StatusStart(p)
  \/ \E p \in TkProcs : TkAcquire(p)
  \/ \E p \in TkProcs : TkReread(p)
  \/ \E p \in TkProcs : TkReply(p)
  \/ \E p \in TkProcs : TkCommit(p)
  \/ \E p \in TkProcs : StatusReport(p)
  \/ TickToken
SpecStatus == InitToken /\ [][NextStatus]_vars

\* ------------------------------------------------------------ properties
\* One step of a task's status: unchanged, pending to running, or running to
\* completed or failed.
Forward(a, b) ==
  \/ a = b
  \/ a = PENDING /\ b = RUNNING
  \/ a = RUNNING /\ b \in Terminal

\* C1: with tasks created by create_chat_task and changed only by the
\* executor and the reaper, a task's status only moves forward: pending,
\* running, then completed or failed, and a terminal status never changes.
C1_StatusMovesForward ==
  [][\A id \in DOMAIN tasks :
        id \in DOMAIN tasks' => Forward(tasks[id].status, tasks'[id].status)]_vars

\* Two tasks went all the way, one to completed and one to failed.
C1_Witness ==
  \E a, b \in DOMAIN tasks :
     /\ tasks[a].status = COMPLETED
     /\ tasks[b].status = FAILED
     /\ \A e \in ExecSlots : exec[e].pc = "done"

Active == {PENDING, RUNNING}

\* C2: whatever create_task, update_task and cleanup_expired calls are made,
\* no step removes a pending or running task from the store, however far
\* past its expires_at it is.
C2_CleanupKeepsActive ==
  [][\A id \in DOMAIN tasks : tasks[id].status \in Active => id \in DOMAIN tasks']_vars

\* cleanup_expired has just removed a task, and a pending or running task
\* past its expires_at is still stored.
C2_Witness ==
  /\ ret.op = "cleanup_expired"
  /\ ret.n > 0
  /\ \E id \in DOMAIN tasks : tasks[id].status \in Active /\ tasks[id].expires_at < now

\* C3: for a connection whose token needs refresh and whose refresh token
\* the provider accepts, the get_decrypted_token calls that overlap send at
\* most one refresh_token grant to the provider.
C3_AtMostOneRefresh ==
  \A c \in ConnIds : ~rejected => concCalls[c] <= 1

\* C4: get_decrypted_token never returns a token while the stored
\* token_expires_at is set and now >= token_expires_at - 10 minutes at the
\* time of the return; such a call either refreshes first, leaving an expiry
\* beyond the buffer, or fails.
C4_NoTokenPastBuffer ==
  [][\A p \in TkProcs :
        tk[p].pc # "returned" /\ tk'[p].pc = "returned"
          => ~needs_refresh(conns'[tk'[p].conn], now')]_vars

\* C5: when handle_oauth_callback calls presenting the same state overlap,
\* at most one Connection is persisted for that state.
C5_OneConnectionPerState ==
  \A c, d \in DOMAIN connState : connState[c] = connState[d] => c = d

\* C6: a handle_oauth_callback that presents a state later than 15 minutes
\* after initiate_oauth created it does not find the state and creates no
\* Connection.
C6_OldStateUnusable ==
  \A p \in CbProcs :
     cb[p].pc \in {"exchanging", "committing", "returned"}
       => cb[p].started_at <= cb[p].state_created + OAUTH_STATE_EXPIRY_MINUTES

Over(e) == exec[e].pc \in {"done", "escaped"}

\* C8: when execute_chat raises while execute_task runs a task, the
\* coroutine ends with the task failed, its error the exception's message,
\* and its result unset.
C8_RaiseMarksFailed ==
  \A e \in ExecSlots :
     Over(e) /\ exec[e].outcome.kind = "raise" /\ exec[e].task_id \in DOMAIN tasks
       => /\ exec[e].pc = "done"
          /\ tasks[exec[e].task_id].status = FAILED
          /\ tasks[exec[e].task_id].error = Some(exec[e].outcome.msg)
          /\ tasks[exec[e].task_id].result = None

\* An execution whose collaborator timed out has ended and its task is stored.
C8_Witness ==
  \E e \in ExecSlots :
     /\ exec[e].pc = "done"
     /\ exec[e].outcome.kind = "raise"
     /\ exec[e].outcome.msg = "Claude command timed out after 300 seconds"
     /\ exec[e].task_id \in DOMAIN tasks
     /\ tasks[exec[e].task_id].status = FAILED

\* C9: no exception leaves execute_task, whatever task id it is called with
\* and whatever the collaborator and the store do.
C9_NoExceptionEscapes ==
  \A e \in ExecSlots : exec[e].pc # "escaped"

\* C10: when execute_chat returns (output, session, exit_code, stderr),
\* execute_task's final update leaves the task completed with exactly these
\* values and error unset; neither of its updates changes message,
\* project_path or created_at.
C10_ReturnMarksCompleted ==
  [][\A e \in ExecSlots :
        LET id == exec[e].task_id
            o == exec[e].outcome
        IN /\ exec[e].pc = "scheduled" /\ exec'[e].pc = "queued"
                => /\ tasks'[id].message = tasks[id].message
                   /\ tasks'[id].project_path = tasks[id].project_path
                   /\ tasks'[id].created_at = tasks[id].created_at
           /\ exec[e].pc = "finished" /\ exec'[e].pc # "finished" /\ o.kind = "return"
                => /\ exec'[e].pc = "done"
                   /\ tasks'[id].status = COMPLETED
                   /\ tasks'[id].result = Some(o.response)
                   /\ tasks'[id].session_id = Some(o.session_id)
                   /\ tasks'[id].exit_code = Some(o.exit_code)
                   /\ tasks'[id].stderr = Some(o.stderr)
                   /\ tasks'[id].error = None
                   /\ tasks'[id].message = tasks[id].message
                   /\ tasks'[id].project_path = tasks[id].project_path
                   /\ tasks'[id].created_at = tasks[id].created_at]_vars

\* A task created earlier has completed at a later time with the
\* collaborator's output, a non-zero exit code and its stderr.
C10_Witness ==
  \E e \in ExecSlots :
     /\ exec[e].pc = "done"
     /\ exec[e].outcome.kind = "return"
     /\ exec[e].outcome.exit_code = 1
     /\ exec[e].task_id \in DOMAIN tasks
     /\ tasks[exec[e].task_id].status = COMPLETED
     /\ tasks[exec[e].task_id].stderr = Some("warn")
     /\ tasks[exec[e].task_id].created_at < tasks[exec[e].task_id].updated_at

\* The execute_task coroutines started for task id.
ExecutionsOf(id) == {e \in ExecSlots : exec[e].pc # "idle" /\ exec[e].task_id = id}

\* C11: every task created by create_chat_task has exactly one execute_task
\* coroutine, and each step that takes a task from running to completed or
\* failed is the final update of that one coroutine.
C11_OneExecutionPerTask ==
  /\ [](\A id \in 1..(nextTaskId - 1) : Cardinality(ExecutionsOf(id)) = 1)
  /\ [][\A id \in DOMAIN tasks :
          id \in DOMAIN tasks' /\ tasks[id].status = RUNNING /\ tasks'[id].status \in Terminal
            => \E e \in ExecutionsOf(id) :
                  /\ exec[e].pc = "finished" /\ exec'[e].pc = "done"
                  /\ \A f \in ExecSlots \ {e} : exec'[f] = exec[f]]_vars

\* Every task the bound allows was created and each was driven to completed
\* by its own coroutine.
C11_Witness ==
  /\ nextTaskId > MaxTasks
  /\ \A id \in TaskIds : id \in DOMAIN tasks /\ tasks[id].status = COMPLETED
  /\ \A e \in ExecSlots : exec[e].pc = "done"

\* C12 as stated: whatever update_task calls are made, a completed or failed
\* task never becomes pending or running again, and a running task never
\* becomes pending again.
C12_StoreEnforcesOrder ==
  [][\A id \in DOMAIN tasks :
        id \in DOMAIN tasks'
          => /\ tasks[id].status \in Terminal => tasks'[id].status \in Terminal
             /\ tasks[id].status = RUNNING => tasks'[id].status # PENDING]_vars

\* C12, amended: the store does not enforce the state machine; after every
\* update_task call that passes a status the task has exactly that status,
\* whatever status it had before (the last writer wins).
C12_StoreKeepsGivenStatus ==
  ret.op = "update_task" /\ ret.res = "ok" /\ ret.status # None
    => ret.id \in DOMAIN tasks /\ tasks[ret.id].status = ret.status[1]

\* A task that had completed with a result was updated to pending.
C12_Witness ==
  /\ ret.op = "update_task" /\ ret.res = "ok" /\ ret.status = Some(PENDING)
  /\ tasks[ret.id].status = PENDING
  /\ tasks[ret.id].result = Some("Done")

\* A step of the cleanup loop: the reaper wakes up and runs cleanup_expired.
SweepStep == reaperSleep = 0 /\ reaperSleep' = CLEANUP_INTERVAL_MINUTES

\* C13: a task that became completed or failed at time T and was not updated
\* since is kept by every cleanup_expired run at a time up to T + TTL and
\* removed by every run after T + TTL, whenever it was created.
C13_ExpiryFromTerminalTime ==
  [][SweepStep =>
       \A id \in DOMAIN tasks :
          tasks[id].status \in Terminal
            => (id \in DOMAIN tasks' <=> now <= tasks[id].updated_at + TTL_MINUTES)]_vars

\* The reaper has just removed a task, and another task, created more than
\* TTL ago but terminal for less, is still stored.
C13_Witness ==
  /\ ret.op = "cleanup_expired"
  /\ ret.n > 0
  /\ reaperSleep = CLEANUP_INTERVAL_MINUTES
  /\ \E id \in DOMAIN tasks :
        /\ tasks[id].status \in Terminal
        /\ now > tasks[id].created_at + TTL_MINUTES
        /\ now <= tasks[id].updated_at + TTL_MINUTES

\* C14: a cleanup_expired call removes exactly the completed or failed tasks
\* whose expires_at is before now, returns how many it removed, leaves every
\* other task as it was, and get_task of a removed task raises NotFound.
C14_CleanupRemovesExpired ==
  [][ret'.op = "cleanup_expired" /\ now' = now =>
       LET gone == {id \in DOMAIN tasks :
                      tasks[id].status \in Terminal /\ tasks[id].expires_at < now}
       IN /\ DOMAIN tasks' = (DOMAIN tasks) \ gone
          /\ ret'.n = Cardinality(gone)
          /\ \A id \in DOMAIN tasks' : tasks'[id] = tasks[id]
          /\ \A id \in gone : get_task(tasks', id) = "NotFound"]_vars

\* cleanup_expired has just removed a task and kept a completed or failed
\* one that has not expired yet.
C14_Witness ==
  /\ ret.op = "cleanup_expired"
  /\ ret.n = 1
  /\ \E id \in 1..(nextTaskId - 1) : get_task(tasks, id) = "NotFound"
  /\ \E id \in DOMAIN tasks : tasks[id].status \in Terminal /\ tasks[id].expires_at >= now

\* C15: with tasks created by create_chat_task and driven by the executor, a
\* task's result is set only when it is completed, its error only when it is
\* failed, and never both.
C15_ResultXorError ==
  \A id \in DOMAIN tasks :
     /\ tasks[id].result # None => tasks[id].status = COMPLETED
     /\ tasks[id].error # None => tasks[id].status = FAILED
     /\ tasks[id].result = None \/ tasks[id].error = None

\* One task is completed with a result and no error, another is failed with
\* an error and no result.
C15_Witness ==
  \E a, b \in DOMAIN tasks :
     /\ tasks[a].status = COMPLETED /\ tasks[a].result # None /\ tasks[a].error = None
     /\ tasks[b].status = FAILED /\ tasks[b].error # None /\ tasks[b].result = None

\* The calls whose refresh_token grant for connection c is with the provider.
InFlight(c) == {p \in TkProcs : tk[p].pc = "refreshing" /\ tk[p].conn = c}

\* C16: in no state are two refresh_token grants for the same connection
\* outstanding at the provider's token endpoint.
C16_OneRefreshInFlight ==
  \A c \in ConnIds : Cardinality(InFlight(c)) <= 1

\* One call's refresh is with the provider while another call for the same
\* connection waits for the lock.
C16_Witness ==
  \E p, q \in TkProcs :
     /\ tk[p].pc = "refreshing" /\ tk[q].pc = "waiting"
     /\ tk[p].conn = tk[q].conn
     /\ lockHolder[tk[p].conn] = p

\* C17: when the refresh a call needs fails (the request raises, the status
\* is not 200, the answer has no access token), the call raises BadRequest
\* and returns no token, and the stored row is left as it was.
C17_FailedRefreshRaises ==
  /\ [](\A p \in TkProcs :
          tk[p].reply \in {"neterr", "non200", "noaccess"}
            => /\ tk[p].pc = "raised" /\ tk[p].res = "BadRequest"
               /\ tk[p].token = << >>)
  /\ [][\A p \in TkProcs :
          tk[p].pc = "refreshing" /\ tk'[p].reply \in {"neterr", "non200", "noaccess"}
            => conns' = conns /\ tk'[p].obj = tk[p].obj]_vars

\* A call's refresh got a 200 answer without access token; the call raised
\* and the row still holds the token and the expiry it had.
C17_Witness ==
  \E p \in TkProcs :
     /\ tk[p].pc = "raised" /\ tk[p].reply = "noaccess"
     /\ conns[tk[p].conn].access_token_encrypted = Encrypt(<<0>>)
     /\ conns[tk[p].conn].token_expires_at = Some(30)
     /\ conns[tk[p].conn].last_used_at = None

\* A call starts on the connection whose row holds the token an earlier,
\* finished call has refreshed.
Follows(p, q) ==
  /\ p # q
  /\ tk[p].pc = "idle" /\ tk'[p].pc # "idle"
  /\ tk[q].pc = "returned" /\ tk[q].refreshed
  /\ tk'[p].conn = tk[q].conn
  /\ conns[tk[q].conn].access_token_encrypted = Encrypt(tk[q].token)

\* The step on which a successful refresh is committed.
CommitsRefresh(p) == tk[p].pc = "committing" /\ tk'[p].pc = "returned"

\* C18 as stated: after a refresh that brought a new expiry, a following
\* call made before that expiry returns the same new token without any
\* provider call.
C18_FollowingCallWithinValidity ==
  [][\A p, q \in TkProcs :
       /\ Follows(p, q)
       /\ tk[q].wrote_expires
       /\ conns[tk[q].conn].token_expires_at # None
       /\ now < conns[tk[q].conn].token_expires_at[1]
       => /\ tk'[p].pc = "returned" /\ tk'[p].token = tk[q].token
          /\ refreshCalls' = refreshCalls]_vars

\* C18: a call whose refresh succeeded returns the new access token and
\* persists it, with the new refresh token when the answer had one, the new
\* expiry when the answer had expires_in (the old values stay otherwise) and
\* last_used_at; alone, it has sent exactly one refresh request; and a
\* following call made before the stored expiry minus the 10-minute buffer
\* returns the same new token without any provider call.
C18_RefreshPersistsNewToken ==
  [][\A p \in TkProcs :
       /\ CommitsRefresh(p) =>
            LET c == tk[p].conn
                new == conns'[c]
            IN /\ tk'[p].res = "token" /\ tk'[p].token = <<tk[p].req>>
               /\ new.access_token_encrypted = Encrypt(tk'[p].token)
               /\ new.refresh_token_encrypted =
                    IF tk[p].wrote_refresh THEN Some(Encrypt(<<tk[p].req, tk[p].req>>))
                    ELSE conns[c].refresh_token_encrypted
               /\ new.last_used_at # None
               /\ new.token_expires_at \in
                    IF tk[p].wrote_expires
                    THEN {Some(new.last_used_at[1] + x[1]) : x \in ExpiresIns \ {None}}
                    ELSE {conns[c].token_expires_at}
               /\ (\A q \in TkProcs \ {p} : tk[q].pc = "idle") => refreshCalls'[c] = 1
       /\ \A q \in TkProcs :
            /\ Follows(p, q)
            /\ conns[tk[q].conn].token_expires_at # None
            /\ now < conns[tk[q].conn].token_expires_at[1] - TOKEN_REFRESH_BUFFER_MINUTES
            => /\ tk'[p].pc = "returned" /\ tk'[p].token = tk[q].token
               /\ refreshCalls' = refreshCalls]_vars

\* The token had expired at minute 30; a call at minute 40 refreshed it once,
\* the row holds the new token, refresh token and expiry, and a second call in
\* the same minute got the same token from the row without a refresh.
C18_Witness ==
  \E p, q \in TkProcs :
     /\ tk[q].pc = "returned" /\ tk[q].refreshed /\ tk[q].now = 40
     /\ tk[q].wrote_refresh /\ tk[q].wrote_expires
     /\ conns[tk[q].conn].access_token_encrypted = Encrypt(tk[q].token)
     /\ conns[tk[q].conn].refresh_token_encrypted = Some(Encrypt(<<tk[q].req, tk[q].req>>))
     /\ conns[tk[q].conn].token_expires_at = Some(70)
     /\ conns[tk[q].conn].last_used_at = Some(40)
     /\ tk[p].pc = "returned" /\ tk[p].conn = tk[q].conn /\ tk[p].req = 0
     /\ tk[p].obj = conns[tk[q].conn] /\ tk[p].token = tk[q].token
     /\ refreshCalls[tk[q].conn] = 1

\* A call starts on a stored connection.
StartsOn(p, c) ==
  /\ tk[p].pc = "idle" /\ tk'[p].pc # "idle"
  /\ tk'[p].conn = c /\ c \in DOMAIN conns

\* C19: the call decides needs_refresh = (token_expires_at is set and
\* now >= token_expires_at - 10 minutes); when that is false, which includes
\* every row without expiry, it returns the decrypted stored access token at
\* once, without the lock, without a provider call, and the row stays as it is.
C19_NoRefreshReturnsCurrent ==
  [][\A p \in TkProcs : \A c \in ConnIds :
       StartsOn(p, c) =>
         LET row == conns[c]
             due == row.token_expires_at # None /\ now >= row.token_expires_at[1] - 10
         IN /\ tk'[p].needs = due
            /\ ~due => /\ tk'[p].pc = "returned" /\ tk'[p].res = "token"
                        /\ tk'[p].token = Decrypt(row.access_token_encrypted)
                        /\ tk'[p].req = 0
                        /\ lockHolder' = lockHolder /\ lockWaiters' = lockWaiters
                        /\ refreshCalls' = refreshCalls
                        /\ conns' = conns]_vars

\* At minute 0 a call on a row whose token expires at minute 30 has returned
\* the stored token; no lock is held, no refresh was sent, the row is as stored.
C19_Witness ==
  \E p \in TkProcs :
     /\ tk[p].pc = "returned" /\ ~tk[p].needs /\ tk[p].now = 0
     /\ tk[p].obj.token_expires_at = Some(30)
     /\ tk[p].token = <<0>> /\ tk[p].req = 0
     /\ conns[tk[p].conn] = tk[p].obj /\ tk[p].obj.last_used_at = None
     /\ lockHolder[tk[p].conn] = 0 /\ lockWaiters[tk[p].conn] = << >>
     /\ refreshCalls[tk[p].conn] = 0

\* C20: a connection row is written only by a callback whose token request
\* was answered 200 with an access token and whose user request was answered
\* 200; a callback that fails in one of these requests leaves the store as
\* it was, and no stored row lacks its access token.
C20_PersistOnlyAfterUpstream ==
  /\ [](\A c \in DOMAIN conns :
          conns[c].provider # "" /\ Decrypt(conns[c].access_token_encrypted) # << >>)
  /\ [][/\ conns' # conns =>
             \E p \in CbProcs :
                /\ cb[p].pc = "committing" /\ cb'[p].pc # "committing"
                /\ cb[p].token_reply = "ok" /\ cb[p].access # << >>
                /\ cb[p].user_reply = "ok"
                /\ DOMAIN conns' = DOMAIN conns \cup {cb'[p].conn}
                /\ \A c \in DOMAIN conns : conns'[c] = conns[c]
          /\ \A q \in CbProcs :
                cb[q].pc = "exchanging" /\ cb'[q].pc = "raised"
                  => conns' = conns /\ connState' = connState]_vars

\* One callback got through and its row is the only one stored; another one
\* failed in a provider request and left nothing.
C20_Witness ==
  \E p, q \in CbProcs :
     /\ cb[p].pc = "raised" /\ cb[p].res = "HTTPError"
     /\ cb[q].pc = "returned" /\ cb[q].conn = 1
     /\ DOMAIN conns = {1}
     /\ Decrypt(conns[1].access_token_encrypted) # << >>

\* C21: a callback whose provider or redirect_uri differs from the one stored
\* with its state has ended with BadRequest: no answer of the provider was
\* ever read by it (neither request was made) and it wrote no connection.
C21_MismatchIsBadRequest ==
  \A p \in CbProcs :
     cb[p].mismatch
       => /\ cb[p].pc = "raised" /\ cb[p].res = "BadRequest"
          /\ cb[p].token_reply = "" /\ cb[p].user_reply = ""
          /\ cb[p].conn = 0

\* A callback with a well-formed verifier and a stored state came with
\* another provider or redirect_uri: it has raised BadRequest, nothing is
\* stored and the state is still in the cache.
C21_Witness ==
  \E p \in CbProcs :
     /\ cb[p].mismatch /\ cb[p].verifier_ok
     /\ cb[p].pc = "raised" /\ cb[p].res = "BadRequest"
     /\ conns = << >>
     /\ oauth_states # << >>

\* A step that is an initiate_oauth call ending with BadRequest.
RejectedInitiate == now' = now /\ ret'.op = "initiate_oauth" /\ ret'.res = "BadRequest"

\* C22: an initiate call rejected for its code_challenge or its instance_url
\* leaves the state cache exactly as it was: nothing added, nothing swept.
C22_RejectedInitiateTouchesNothing ==
  [][RejectedInitiate => oauth_states' = oauth_states /\ nextState' = nextState]_vars

\* A call was rejected in a minute in which a stored state was already past
\* its 15 minutes; the state is still in the cache.
C22_Witness ==
  /\ ret.op = "initiate_oauth" /\ ret.res = "BadRequest" /\ ret.n = now
  /\ \E st \in DOMAIN oauth_states : now - oauth_states[st].created_at > OAUTH_STATE_EXPIRY_MINUTES

\* The inputs C23 says initiate accepts: a non-empty code_challenge over the
\* allowed characters and, for a self-hosted provider, an instance_url that is
\* present, starts with https:// and has a well-formed host.
Acceptable(args) ==
  /\ args.code_challenge # << >>
  /\ \A i \in 1..Len(args.code_challenge) : PkceChar(args.code_challenge[i])
  /\ args.provider \in SelfHosted =>
        /\ args.instance_url # None
        /\ IsHttps(args.instance_url[1])
        /\ WellFormedUrl(args.instance_url[1])

\* C23: initiate succeeds exactly on the acceptable inputs and fails with
\* BadRequest on every other input.
C23_InitiateAcceptsExactlyValid ==
  ret.op = "initiate_oauth" =>
    /\ ret.res = "ok" <=> Acceptable(ret.status[1])
    /\ ret.res = "BadRequest" <=> ~Acceptable(ret.status[1])

\* C24: check_connection_status never ends with an exception because no
\* token could be had: for an unknown id, a failed refresh or a failed
\* provider request it returns a status with is_valid false.
C24_StatusNeverRaises ==
  \A p \in TkProcs : tk[p].checked # "raised"

\* C25: no callback ends with the raw exception of a failed provider
\* request; a failure of the token or the user request ends with BadRequest.
C25_NoRawNetworkError ==
  \A p \in CbProcs : cb[p].pc = "raised" => cb[p].res # "HTTPError"

\* The executions handed to the pool and not yet taken by a worker.
Waiting == {e \in ExecSlots : exec[e].pc = "queued"}

\* C26: at every moment at most max_workers collaborator calls are
\* executing; the executions beyond that wait in the pool's queue.
C26_AtMostMaxWorkers ==
  /\ Cardinality(Busy) <= MaxWorkers
  /\ Waiting = {poolQueue[i] : i \in 1..Len(poolQueue)}
  /\ Cardinality(Waiting) = Len(poolQueue)

\* Every worker is executing a call and one more execution waits.
C26_Witness ==
  /\ Cardinality(Busy) = MaxWorkers
  /\ Waiting # {}

\* C27: whenever a task's status is running, a worker of the pool has
\* started its collaborator call; a task whose call still waits for a worker
\* reads pending.
C27_RunningMeansStarted ==
  \A id \in DOMAIN tasks :
     tasks[id].status = RUNNING =>
       \E e \in ExecutionsOf(id) : exec[e].pc \in {"executing", "finished"}

\* The step on which a woken cleanup loop gets an exception from cleanup_expired.
FailedSweep ==
  /\ lifecycle.reaper = "sleeping" /\ reaperSleep = 0 /\ reaperSleep' # 0
  /\ ret'.op = "cleanup_expired" /\ ret'.res = "raised"

\* C28: the cleanup loop never ends because a sweep raised: the exception is
\* caught, nothing is propagated to shutdown_event, and the loop is back in
\* its sleep with a whole interval to go before the next sweep.
C28_FailedSweepKeepsLoop ==
  /\ [](lifecycle.reaper # "failed" /\ lifecycle.shutdown # "raised")
  /\ [][FailedSweep =>
          /\ lifecycle'.reaper = "sleeping"
          /\ reaperSleep' = CLEANUP_INTERVAL_MINUTES
          /\ tasks' = tasks]_vars

\* A sweep has just raised at minute 30 with a task in the store; the loop
\* sleeps again and the service runs.
C28_Witness ==
  /\ ret.op = "cleanup_expired" /\ ret.res = "raised"
  /\ now = 30 /\ tasks # << >>
  /\ lifecycle.reaper = "sleeping" /\ reaperSleep = CLEANUP_INTERVAL_MINUTES
  /\ lifecycle.shutdown = "running"

\* C29: once shutdown has cancelled the cleanup task, the loop's handler does
\* not catch the cancellation, no sweep runs any more, and shutdown_event
\* leaves "await cleanup_task" only with the task cancelled, takes that as a
\* clean end and goes on to the executor and the database.
C29_CancelStopsReaper ==
  /\ [](lifecycle.shutdown # "running" => lifecycle.reaper \in {"cancelling", "cancelled"})
  /\ [](lifecycle.shutdown \in {"executor", "closing_db", "done"} => lifecycle.reaper = "cancelled")
  /\ [][lifecycle.shutdown # "running" =>
          /\ ~SweepStep
          /\ lifecycle.reaper = "cancelling" /\ lifecycle'.reaper # "cancelling"
                => lifecycle'.reaper = "cancelled"
          /\ lifecycle.shutdown = "awaiting_reaper" /\ lifecycle'.shutdown # "awaiting_reaper"
                => lifecycle.reaper = "cancelled" /\ lifecycle'.shutdown = "executor"]_vars

\* Shutdown came at minute 30, after the loop had swept; the cleanup task is
\* cancelled, its sleep had run out again, and shutdown_event has ended.
C29_Witness ==
  /\ lifecycle.shutdown = "done" /\ lifecycle.reaper = "cancelled"
  /\ ret.op = "cleanup_expired" /\ now = 60

\* C30: a collaborator call that a worker has started leaves the worker only
\* by ending; shutdown_event passes executor.shutdown() only when no worker
\* executes a call and none waits in the pool, and none starts later.
C30_ShutdownDrainsPool ==
  /\ [](lifecycle.shutdown \in {"closing_db", "done"} => Busy = {} /\ poolQueue = << >>)
  /\ [][\A e \in ExecSlots :
          /\ exec[e].pc = "executing" => exec'[e].pc \in {"executing", "finished"}
          /\ exec[e].pc = "queued" => exec'[e].pc \in {"queued", "executing"}]_vars

\* shutdown_event is inside executor.shutdown() while a worker executes a
\* call and another call waits in the pool's queue.
C30_Witness ==
  /\ lifecycle.shutdown = "executor"
  /\ Busy # {}
  /\ poolQueue # << >>


\* The finished update_task calls of task id that came after the first n.
LaterUpdates(id, n) == {u \in UpdDone : upd[u].id = id /\ upd[u].order > n}

\* The task as it is after the finished updates of id, from the one after
\* the first n on, were applied to it one at a time in the order they ended.
RECURSIVE ApplyInOrder(_, _, _)
ApplyInOrder(task, id, n) ==
  IF LaterUpdates(id, n) = {}
  THEN task
  ELSE LET u == CHOOSE u \in LaterUpdates(id, n) :
                   \A v \in LaterUpdates(id, n) : upd[u].order <= upd[v].order
           a == upd[u].args[1]
       IN ApplyInOrder(update_task(task, a.status, a.result, a.error, a.exit_code,
                                   a.stderr, a.session_id, upd[u].at),
                       id, upd[u].order)

\* The task as create_task stored it, then every finished update in turn.
Linearized(id) ==
  LET req == CHOOSE req \in StoreRequests : TRUE
  IN ApplyInOrder(create_task(req.message, req.session_id, req.project_path,
                              tasks[id].created_at), id, 0)

\* A step that is a get_task call.
ReadStep == ret'.op = "get_task" /\ tasks' = tasks /\ upd' = upd /\ now' = now

\* C31: while update_task calls for one task overlap, the stored task is at
\* every moment what the finished calls give when applied one after another
\* in the order they ended (so the last one's status and fields win), and
\* a get_task call returns exactly that task, never one with a part of an
\* update in it.
C31_UpdatesLinearized ==
  /\ [](\A id \in DOMAIN tasks : tasks[id] = Linearized(id))
  /\ [][ReadStep /\ ret'.res # "NotFound"
          => ret'.status = Some(Linearized(ret'.id))]_vars

\* Two calls for the same task were pending together, the one sent second
\* ended first, and the task holds the status and result of the one that
\* ended last over the failure the other one wrote.
C31_Witness ==
  /\ upd[1].pc = "done" /\ upd[2].pc = "done"
  /\ upd[1].id = upd[2].id
  /\ upd[2].order = 1 /\ upd[1].order = 2
  /\ upd[2].args[1].status = Some(FAILED)
  /\ upd[1].args[1].status = Some(COMPLETED)
  /\ tasks[upd[1].id].status = COMPLETED
  /\ tasks[upd[1].id].result = Some("Done")
  /\ tasks[upd[1].id].error = Some("boom")


\* Two rows that are the same but for the access and refresh token values.
SameButTokens(r1, r2) ==
  [r1 EXCEPT !.access_token_encrypted = r2.access_token_encrypted,
             !.refresh_token_encrypted = r2.refresh_token_encrypted] = r2

\* The stores that differ from a store in token values only.
TokenVariants(store) ==
  {alt \in [DOMAIN store -> ConnRows] :
      \A id \in DOMAIN store : SameButTokens(store[id], alt[id])}

\* C32: what get_connection and list_connections return is what they would
\* return on any store that differs from this one in the access and refresh
\* token values only, and the connection handle_oauth_callback returns for
\* the row it built is the same whatever tokens the provider issued.
C32_NoTokenMaterial ==
  /\ [][ret'.op = "get_connection"
          => \A alt \in TokenVariants(conns) : ret' = get_connection(alt, ret'.id)]_vars
  /\ [][ret'.op = "list_connections"
          => \A alt \in TokenVariants(conns) : ret' = list_connections(alt)]_vars
  /\ [](\A id \in ConnIds : \A c1, c2 \in IssuedTokens :
          SameButTokens(new_connection(c1), new_connection(c2))
            => db_connection_to_api(id, new_connection(c1))
                 = db_connection_to_api(id, new_connection(c2)))

\* list_connections has answered for a store of two connections whose access
\* tokens differ and of which one holds a refresh token, and there is a
\* store with other tokens to compare with.
C32_Witness ==
  /\ ret.op = "list_connections" /\ ret.n = 2
  /\ ret = list_connections(conns)
  /\ \E c, d \in DOMAIN conns :
       /\ conns[c].access_token_encrypted # conns[d].access_token_encrypted
       /\ conns[c].refresh_token_encrypted # None
  /\ \E alt \in TokenVariants(conns) : alt # conns


\* C34: a delete-connection request for a stored connection id, once
\* handled, has removed the connection: get_connection for the id reports
\* NotFound and list_connections no longer holds it.
C34_DeleteRequestRemoves ==
  [][ret'.op = "delete_request" /\ ret'.id \in DOMAIN conns
       => /\ get_connection(conns', ret'.id).res = "NotFound"
          /\ \A view \in list_connections(conns').status[1] : view.id # ret'.id]_vars


\* C33: decrypt(encrypt(x)) gives x back for every non-empty string x, and
\* encrypt and decrypt each return the empty string for the empty string.
C33_VaultRoundTrip ==
  /\ ret.op = "round_trip" /\ ret.status[1][1] # << >>
       => ret.res = "ok" /\ ret.status[1][2] = ret.status[1][1]
  /\ ret.op \in {"encrypt", "decrypt"} /\ ret.status[1][1] = << >>
       => ret.res = "ok" /\ ret.status[1][2] = << >>


\* C35: when a call that refreshed successfully releases the lock of its
\* connection, the new tokens and the new expiry are already committed, so
\* that the next holder of the lock re-reads the refreshed row.
C35_PersistedBeforeRelease ==
  [][\A p \in TkProcs :
        /\ tk[p].pc = "refreshing" /\ tk'[p].refreshed
        /\ lockHolder[tk[p].conn] = p /\ lockHolder'[tk[p].conn] # p
        => /\ conns'[tk[p].conn].access_token_encrypted = Encrypt(tk'[p].token)
           /\ conns'[tk[p].conn].token_expires_at = tk'[p].obj.token_expires_at
           /\ conns'[tk[p].conn].refresh_token_encrypted = tk'[p].obj.refresh_token_encrypted]_vars


\* C36: a state leaves the cache only in the step in which a callback that
\* presented it returns its connection, or in the sweep of an initiate call
\* when it is older than the expiry window; a step in which a callback ends
\* with an exception leaves the cache as it was.
C36_StateDeletedOnlyBySuccessOrSweep ==
  [][/\ \A st \in (DOMAIN oauth_states) \ (DOMAIN oauth_states') :
          \/ \E q \in CbProcs :
               cb[q].pc = "committing" /\ cb'[q].pc = "returned" /\ cb[q].state = st
          \/ /\ now - oauth_states[st].created_at > OAUTH_STATE_EXPIRY_MINUTES
             /\ nextState' = nextState + 1
     /\ \A p \in CbProcs :
          cb[p].pc # "raised" /\ cb'[p].pc = "raised" => oauth_states' = oauth_states]_vars

\* The only state ever made was presented twice: the first callback found it
\* and failed at the provider, the second one found it again and returned
\* its connection.
C36_Witness ==
  /\ nextState = 2
  /\ cb[1].pc = "raised" /\ cb[1].res = "BadRequest"
  /\ cb[1].verifier_ok /\ ~cb[1].mismatch
  /\ cb[2].pc = "returned" /\ cb[2].state = 1 /\ cb[2].conn = 1
  /\ oauth_states = << >>


\* C37: a check_connection_status call that reports is_valid = false leaves
\* the stored last_used_at as it was, also when it refreshed the token: as
\* long as every call made so far has ended with is_valid = false (or with
\* NotFound), no connection has a last_used_at other than the one it was
\* stored with.
C37_InvalidCheckKeepsLastUsed ==
  (\A p \in TkProcs : tk[p].pc = "idle" \/ tk[p].checked \in {"invalid", "raised"})
    => \A c \in DOMAIN conns : conns[c].last_used_at = None


\* C38: every task a create-task request has stored gets to completed or
\* failed, when the event loop and the pool are fair and every collaborator
\* call ends.
C38_TaskReachesTerminal ==
  \A id \in TaskIds :
     (id \in DOMAIN tasks) ~> (id \in DOMAIN tasks /\ tasks[id].status \in Terminal)

\* Two tasks were created; the call of the first returned and the call of
\* the second, which had waited for the worker, raised: one is completed,
\* the other failed, and both coroutines have ended.
C38_Witness ==
  /\ DOMAIN tasks = {1, 2}
  /\ tasks[1].status = COMPLETED /\ tasks[2].status = FAILED
  /\ \A e \in ExecSlots : exec[e].pc = "done"
  /\ poolQueue = << >>


\* C39: a task that is completed or failed is removed by a sweep of the
\* cleanup loop once its expires_at has passed, and get_task then reports
\* NotFound; checked for the tasks whose expires_at lies before the end of
\* the clock.
C39_TerminalTaskRemoved ==
  \A id \in TaskIds :
     (id \in DOMAIN tasks /\ tasks[id].status \in Terminal /\ tasks[id].expires_at < MaxTime)
       ~> (get_task(tasks, id) = "NotFound")

\* The first task ended at minute 0 and a sweep after minute 60 has removed
\* it, alone: get_task reports NotFound for it.
C39_Witness ==
  /\ nextTaskId > 1 /\ get_task(tasks, 1) = "NotFound"
  /\ ret.op = "cleanup_expired" /\ ret.n = 1
  /\ now > TTL_MINUTES
  /\ reaperSleep = CLEANUP_INTERVAL_MINUTES


\* C40: a handle_oauth_callback call that has committed a connection returns
\* that connection to its caller and does not raise, whatever other
\* callbacks and initiate calls did while it was waiting.
C40_CommittedCallbackReturns ==
  \A p \in CbProcs :
     cb[p].conn \in DOMAIN conns => cb[p].pc = "returned" /\ cb[p].res = "Connection"

====
